---- MODULE Spec2Model ----
(***************************************************************************)
(* Authentication token lifecycle of custos (Django / DRF).                *)
(*                                                                         *)
(* The state is the content of the tables of authentication/models.py,     *)
(* the refresh JWTs signed by the JWT library and the wall clock.  Every   *)
(* action is one request handler or one management command, run to         *)
(* completion.  The response of a handler is a function of the state it    *)
(* finds and of its input: it is the operator <handler>_response, and the  *)
(* handler branches on it.  Handlers run without ATOMIC_REQUESTS (the      *)
(* Django default): a write made before an unhandled exception stays       *)
(* committed.  The two login views are also given write by write           *)
(* (<handler>_post_begin, <handler>_post_end): a request that has made its *)
(* first write is held in inflight until it ends or its process stops.     *)
(*                                                                         *)
(* The table auth_user is kept in two parts: users holds the password and  *)
(* the flags of the account of each lower-cased email, accounts holds the  *)
(* email and username columns as stored, for the operations that take      *)
(* these fields as typed.                                                  *)
(*                                                                         *)
(* Time is counted in hours.  Token strings are random and unique; they    *)
(* are modelled by consecutive positive numbers, 0 is a string that was    *)
(* never issued.                                                           *)
(***************************************************************************)
EXTENDS Integers, FiniteSets, Sequences, TLC

VARIABLES
    now,        \* timezone.now(), in hours
    ticks,      \* number of clock advances so far (bounds the exploration)
    rotate,     \* settings.SIMPLE_JWT['ROTATE_REFRESH_TOKENS']
    blacklist_app, \* 'rest_framework_simplejwt.token_blacklist' installed
    blacklist,  \* refresh JWTs the JWT library has blacklisted
    users,      \* table auth_user, keyed by (lower-cased) email
    vtokens,    \* table EmailVerificationToken
    rtokens,    \* table PasswordResetToken
    ftokens,    \* table RefreshToken (CustomRefreshToken in the views)
    jwts,       \* refresh JWTs signed by the JWT library (stateless)
    sessions,   \* table UserSession
    attempts,   \* table LoginAttempt
    nextId,     \* next fresh token / row id per table
    verifiedWith, \* history: verification tokens that verified an email
    inflight,   \* requests that have made part of their writes
    accounts,   \* table auth_user: the email and username columns as stored
    cache,      \* django.core.cache: the rate-limit counter per identifier
    allowed     \* history: calls check_rate_limit allowed, per live counter

vars == <<now, ticks, rotate, blacklist_app, blacklist, users, vtokens,
          rtokens, ftokens, jwts, sessions, attempts, nextId, verifiedWith,
          inflight, accounts, cache, allowed>>

----------------------------------------------------------------------------
(* Bounds of the exploration *)

(* ... of the issuing of tokens at one instant (SpecIssue) *)
IssueMaxVerificationTokens == 3
IssueMaxResetTokens == 2

(* ... of the login views taken write by write (SpecAudit) *)
AuditMaxVerificationTokens == 2
AuditMaxResetTokens == 1
AuditMaxJwts == 2
AuditMaxSessions == 2
AuditMaxAttempts == 2

(* ... of the sessions and refresh tokens (SpecSession) *)
SessMaxVerificationTokens == 2
SessMaxJwts == 2
SessMaxSessions == 2
SessMaxAttempts == 2

(* ... of the creation of users (SpecAccounts) *)
AccMaxVerificationTokens == 2
AccMaxAccounts == 3

(* ... of the failed logins over the hours (SpecFailures) *)
FailMaxVerificationTokens == 1
FailMaxJwts == 1
FailMaxAttempts == 6
FailMaxTicks == 1

(* ... of the cleanup beside the issuing of tokens (SpecCleanup) *)
CleanMaxVerificationTokens == 1
CleanMaxResetTokens == 1
CleanMaxJwts == 1
CleanMaxTicks == 1
CleanMaxCleanups == 1

(* ... of the consuming of tokens write by write (SpecConsume) *)
ConsMaxVerificationTokens == 1
ConsMaxResetTokens == 1
ConsMaxJwts == 1
ConsMaxTicks == 1
ConsMaxRequests == 2

(* ... of the refreshing of tokens (SpecRotate) *)
RotMaxVerificationTokens == 1
RotMaxJwts == 3
RotMaxLogins == 2
RotMaxTicks == 1

(* ... of the sessions of two users over months (SpecDevices) *)
DevMaxVerificationTokens == 2
DevMaxLogins == 3
DevMaxTicks == 1

(* ... of the sessions of one user over months (SpecLocations) *)
LocMaxVerificationTokens == 1
LocMaxLogins == 2
LocMaxTicks == 2

(* ... of the flags of tokens and sessions (SpecFlags) *)
FlagMaxVerificationTokens == 2
FlagMaxResetTokens == 1
FlagMaxJwts == 2
FlagMaxLogins == 1
FlagMaxTicks == 1

(* ... of the rate limit (SpecRate) *)
RateMaxCallers == 2
RateMaxAllowed == 7

(* ... of the token flows over time (SpecTokens) *)
TokMaxTicks == 1
TokMaxVerificationTokens == 2
TokMaxResetTokens == 1

(* ... of the login flows (SpecLogin) *)
LoginMaxVerificationTokens == 2
LoginMaxResetTokens == 1
LoginMaxJwts == 2
LoginMaxSessions == 1
LoginMaxAttempts == 1

(* ... of all operations together (Spec) *)
MaxTicks == 1
MaxVerificationTokens == 2
MaxResetTokens == 1
MaxJwts == 1
MaxSessions == 1
MaxAttempts == 1

(* Program constants, in hours *)

VerificationTTL == 24
ResetTTL == 2
RefreshTTL == 168
HoursPerDay == 24
ResetAllAfter == 24
SuspiciousWindow == 1
SuspiciousThreshold == 5
ProbeEmails == {"a@x.com"}
ProbeIPs == {"1.2.3.4", "5.6.7.8"}
HourSteps == {1, 2}
DefaultSessionDays == 30
SessionDays == {DefaultSessionDays}
MonthSteps == {HoursPerDay * (DefaultSessionDays + 1)}

Users == {"a@x.com", "b@x.com"}
NoSuchEmail == "nobody@x.com"
Emails == Users \cup {NoSuchEmail}
Passwords == {"pw1", "pw2"}
RegisterPasswords == {"pw1"}
(* The new passwords the reset confirmations carry: none is the one a    *)
(* user registers with                                                   *)
ResetPasswords == {"pw2", "pw3"}
IPs == {"1.2.3.4"}
DaysOld == {0, 1}
TickSteps == {ResetTTL, VerificationTTL, RefreshTTL}
TokTickSteps == {VerificationTTL, RefreshTTL}

(* Inputs of the registration and of the superuser command: emails and     *)
(* usernames in several spellings, a password the strength rules reject    *)
RawEmails == {"a@x.com", "A@x.com", "a@X.com", "b@x.com"}
Usernames == {"alice", "Alice", "bob", "al", "a!"}
NoUsername == ""
RateIdentifiers == {"1.2.3.4"}
NoEntry == -1
DefaultRateLimit == 5
WeakPasswords == {"123"}
MinUsernameLen == 3

NoUser ==
    [registered |-> FALSE, password |-> "pw1", is_active |-> FALSE,
     is_verified |-> FALSE, date_joined |-> 0]

NoOne == "-"

(* rest_framework Response: status code and the message it carries *)
Response(status, msg) == [status |-> status, msg |-> msg]

----------------------------------------------------------------------------
(* models.py: expiry and validity of the three token models *)

(* Variant: expired from the instant expires_at on *)
is_expired_at_instant(row, t) == t >= row.expires_at

is_expired(row, t) == t > row.expires_at

EmailVerificationToken_is_valid(row, t) == ~row.is_used /\ ~is_expired(row, t)

PasswordResetToken_is_valid(row, t) == ~row.is_used /\ ~is_expired(row, t)

RefreshToken_is_valid(row, t) == ~row.is_revoked /\ ~is_expired(row, t)

(* <Model>.objects.get(token=...) : the set of matching rows (0 or 1) *)
RowsByToken(table, tok) == {r \in table : r.token = tok}

(* Variant: the earlier tokens are left as they are *)
InvalidateNone(table, u) == table

(* <Model>.objects.filter(user=user, is_used=False).update(is_used=True) *)
InvalidateUnused(table, u) ==
    {IF r.user = u /\ ~r.is_used THEN [r EXCEPT !.is_used = TRUE] ELSE r
        : r \in table}

(* Variant: the update flips the flag of every refresh token of the user *)
RevokeAllFlipping(table, u) ==
    {IF r.user = u THEN [r EXCEPT !.is_revoked = ~r.is_revoked] ELSE r
        : r \in table}

(* RefreshToken.objects.filter(user=user).update(is_revoked=True) *)
RevokeAll(table, u) ==
    {IF r.user = u THEN [r EXCEPT !.is_revoked = TRUE] ELSE r : r \in table}

(* <Model>.objects.create(user=user, token=token): save() fills expires_at *)
NewToken(u, tok, ttl) ==
    [token |-> tok, user |-> u, expires_at |-> now + ttl, is_used |-> FALSE]

(* User.objects.get(email__iexact=email) finds a row *)
UserExists(email) == email \in Users /\ users[email].registered

(* A request or command that has made part of its steps: what it holds in  *)
(* memory (the row it stored or the values it read, the password it        *)
(* carries)                                                                *)
Request(view, row, password) ==
    [view |-> view, row |-> row, password |-> password]

----------------------------------------------------------------------------
Init ==
    /\ now = 0
    /\ ticks = 0
    /\ rotate \in BOOLEAN
    /\ blacklist_app \in BOOLEAN
    /\ blacklist = {}
    /\ users = [u \in Users |-> NoUser]
    /\ vtokens = {}
    /\ rtokens = {}
    /\ ftokens = {}
    /\ jwts = {}
    /\ sessions = {}
    /\ attempts = {}
    /\ nextId = [v |-> 1, r |-> 1, j |-> 1, s |-> 1, a |-> 1]
    /\ verifiedWith = {}
    /\ inflight = {}
    /\ accounts = {}
    /\ cache = [i \in RateIdentifiers |-> NoEntry]
    /\ allowed = [i \in RateIdentifiers |-> 0]

(* The clock advances *)
Tick(d) ==
    /\ now' = now + d
    /\ ticks' = ticks + 1
    /\ UNCHANGED <<rotate, cache, allowed, inflight, accounts, blacklist_app,
                   blacklist, users, vtokens, rtokens, ftokens, jwts,
                   sessions, attempts, nextId, verifiedWith>>

(* views.RegisterView.create behind UserRegistrationSerializer *)
RegisterView_response(email) ==
    IF UserExists(email)
    THEN Response(400, "A user with this email already exists.")
    ELSE Response(201,
        "Registration successful. Please check your email for verification link.")

(* The user is created unverified and a verification token is stored; a    *)
(* failure to send the mail is logged and swallowed.                       *)
RegisterView_create(u, p) ==
    IF RegisterView_response(u).status # 201
    THEN UNCHANGED vars
    ELSE /\ users' = [users EXCEPT ![u] =
                [registered |-> TRUE, password |-> p, is_active |-> TRUE,
                 is_verified |-> FALSE, date_joined |-> now]]
         /\ vtokens' = vtokens \cup {NewToken(u, nextId.v, VerificationTTL)}
         /\ nextId' = [nextId EXCEPT !.v = @ + 1]
         /\ UNCHANGED <<now, ticks, rotate, cache, allowed, inflight,
                        accounts, blacklist_app, blacklist, rtokens, ftokens,
                        jwts, sessions, attempts, verifiedWith>>

(* str.lower() on the inputs of the model *)
lower(str) ==
    CASE str \in {"A@x.com", "a@X.com"} -> "a@x.com"
      [] str = "Alice" -> "alice"
      [] OTHER -> str

(* BaseUserManager.normalize_email: the domain part is lower-cased, the    *)
(* local part is kept as typed                                             *)
normalize_email(email) == IF email = "a@X.com" THEN "a@x.com" ELSE email

(* email.split('@')[0] *)
local_part(email) ==
    CASE email \in {"a@x.com", "a@X.com"} -> "a"
      [] email = "A@x.com" -> "A"
      [] OTHER -> "b"

(* re.match("^[a-zA-Z0-9_]+$", value) *)
username_charset_ok(value) == value \notin {"a!"}

(* django.contrib.auth.password_validation.validate_password *)
password_strong(value) == value \notin WeakPasswords

(* UserRegistrationSerializer.is_valid: the errors it reports.  Every      *)
(* field is validated and the errors of the fields are collected;          *)
(* validate_username raises at the first rule the username breaks;         *)
(* validate(), which compares the confirmation, runs only when no field    *)
(* has an error.                                                           *)
UserRegistrationSerializer_errors(email, username, password, confirm_ok) ==
    LET email_errors ==
            IF \E a \in accounts : lower(a.email) = lower(email)
            THEN {"A user with this email already exists."}
            ELSE {}
        username_errors ==
            IF \E a \in accounts : lower(a.username) = lower(username)
            THEN {"A user with this username already exists."}
            ELSE IF Len(username) < MinUsernameLen
            THEN {"Username must be at least 3 characters long."}
            ELSE IF ~username_charset_ok(username)
            THEN {"Username can only contain letters, numbers, and underscores."}
            ELSE {}
        password_errors ==
            IF ~password_strong(password)
            THEN {"This password is too weak."}
            ELSE {}
        field_errors == email_errors \cup username_errors \cup password_errors
    IN  IF field_errors # {}
        THEN field_errors
        ELSE IF ~confirm_ok
        THEN {"Password and password confirmation don't match."}
        ELSE {}

(* A row of auth_user, its email and username columns *)
Account(email, username) == [email |-> email, username |-> username]

(* The unique constraints of the email and username columns *)
UniqueViolation(row) ==
    \E a \in accounts : a.email = row.email \/ a.username = row.username

(* views.RegisterView.create with the fields as typed: the serializer      *)
(* lower-cases the email and the username, create_user stores them, a      *)
(* verification token is stored for the new user.                          *)
RegisterView_post(email, username, password, confirm_ok) ==
    IF UserRegistrationSerializer_errors(email, username, password,
                                         confirm_ok) # {}
    THEN UNCHANGED vars
    ELSE /\ accounts' = accounts \cup
              {Account(normalize_email(lower(email)), lower(username))}
         /\ users' = [users EXCEPT ![lower(email)] =
                [registered |-> TRUE, password |-> password,
                 is_active |-> TRUE, is_verified |-> FALSE,
                 date_joined |-> now]]
         /\ vtokens' = vtokens \cup
              {NewToken(lower(email), nextId.v, VerificationTTL)}
         /\ nextId' = [nextId EXCEPT !.v = @ + 1]
         /\ UNCHANGED <<now, ticks, rotate, cache, allowed, inflight,
                        blacklist_app, blacklist, rtokens, ftokens, jwts,
                        sessions, attempts, verifiedWith>>

(* manage.py create_superuser_with_profile --email --password --username:  *)
(* the command looks for the email exactly as typed, create_superuser      *)
(* stores the normalized email and the username as typed, verified; the    *)
(* insert fails on the unique constraints of the two columns.  The table   *)
(* users, keyed by lower-cased email, takes the row where the key is free. *)
create_superuser_with_profile(email, password, username_option) ==
    LET username == IF username_option = NoUsername
                    THEN local_part(email) ELSE username_option
        row == Account(normalize_email(email), username)
    IN  IF (\E a \in accounts : a.email = email) \/ UniqueViolation(row)
        THEN UNCHANGED vars
        ELSE /\ accounts' = accounts \cup {row}
             /\ users' =
                  IF UserExists(lower(email))
                  THEN users
                  ELSE [users EXCEPT ![lower(email)] =
                         [registered |-> TRUE, password |-> password,
                          is_active |-> TRUE, is_verified |-> TRUE,
                          date_joined |-> now]]
             /\ UNCHANGED <<now, ticks, rotate, cache, allowed, inflight,
                            blacklist_app, blacklist, vtokens, rtokens,
                            ftokens, jwts, sessions, attempts, nextId,
                            verifiedWith>>

(* Variant: a token that is expired or used is answered like one that is  *)
(* not found                                                               *)
verify_email_response_collapsed(tok) ==
    LET found == RowsByToken(vtokens, tok) IN
    IF found = {}
    THEN Response(400, "Invalid verification link.")
    ELSE IF ~EmailVerificationToken_is_valid(CHOOSE r \in found : TRUE, now)
    THEN Response(400, "Invalid verification link.")
    ELSE Response(200,
        "Email verified successfully. You can now login to your account.")

(* views.verify_email: the three exits of the view *)
verify_email_response(tok) ==
    LET found == RowsByToken(vtokens, tok) IN
    IF found = {}
    THEN Response(400, "Invalid verification link.")
    ELSE IF ~EmailVerificationToken_is_valid(CHOOSE r \in found : TRUE, now)
    THEN Response(400, "Verification link has expired or been used.")
    ELSE Response(200,
        "Email verified successfully. You can now login to your account.")

(* Variant: the user is marked verified and the token is left unused *)
VerifyWithoutMarkingUsed(tok) ==
    LET row == CHOOSE r \in RowsByToken(vtokens, tok) : TRUE IN
    /\ users' = [users EXCEPT ![row.user].is_verified = TRUE]
    /\ verifiedWith' = verifiedWith \cup {tok}
    /\ UNCHANGED <<now, ticks, rotate, cache, allowed, inflight, accounts,
                   blacklist_app, blacklist, vtokens, rtokens, ftokens, jwts,
                   sessions, attempts, nextId>>

(* Mark the user verified, then mark the token used *)
VerifyWith(tok) ==
    LET row == CHOOSE r \in RowsByToken(vtokens, tok) : TRUE IN
    /\ users' = [users EXCEPT ![row.user].is_verified = TRUE]
    /\ vtokens' = (vtokens \ {row}) \cup {[row EXCEPT !.is_used = TRUE]}
    /\ verifiedWith' = verifiedWith \cup {tok}
    /\ UNCHANGED <<now, ticks, rotate, cache, allowed, inflight, accounts,
                   blacklist_app, blacklist, rtokens, ftokens, jwts, sessions,
                   attempts, nextId>>

verify_email(tok) ==
    IF verify_email_response(tok).status = 200
    THEN VerifyWith(tok)
    ELSE UNCHANGED vars

(* views.verify_email up to its first write: the token row is read and    *)
(* is_valid is checked; the request holds the row in memory.  The exits    *)
(* with status 400 write nothing.  auth.EmailVerificationView.post makes   *)
(* the same steps in the same order.                                       *)
verify_email_begin(tok) ==
    /\ verify_email_response(tok).status = 200
    /\ inflight' = inflight \cup
         {Request("verify",
                  [id |-> 0, stage |-> 1,
                   token |-> CHOOSE r \in RowsByToken(vtokens, tok) : TRUE],
                  "")}
    /\ UNCHANGED <<now, ticks, rotate, cache, allowed, accounts,
                   blacklist_app, blacklist, users, vtokens, rtokens, ftokens,
                   jwts, sessions, attempts, nextId, verifiedWith>>

(* Variant: the token is marked used before the user is marked verified *)
verify_email_write_marking_first(r) ==
    /\ r \in inflight
    /\ r.view = "verify"
    /\ users' = IF r.row.stage = 2
                THEN [users EXCEPT ![r.row.token.user].is_verified = TRUE]
                ELSE users
    /\ vtokens' = IF r.row.stage = 1
                  THEN {x \in vtokens : x.token # r.row.token.token} \cup
                       {[r.row.token EXCEPT !.is_used = TRUE]}
                  ELSE vtokens
    /\ verifiedWith' = verifiedWith \cup {r.row.token.token}
    /\ inflight' = IF r.row.stage = 2
                   THEN inflight \ {r}
                   ELSE (inflight \ {r}) \cup {[r EXCEPT !.row.stage = 2]}
    /\ UNCHANGED <<now, ticks, rotate, cache, allowed, accounts,
                   blacklist_app, blacklist, rtokens, ftokens, jwts, sessions,
                   attempts, nextId>>

(* views.verify_email, one of its two writes, in the order of the code:    *)
(* user.is_verified = True; user.save(), then verification_token.is_used = *)
(* True; verification_token.save(), which writes the row held in memory    *)
(* (and inserts it again when the row has been deleted meanwhile).         *)
verify_email_write(r) ==
    /\ r \in inflight
    /\ r.view = "verify"
    /\ users' = IF r.row.stage = 1
                THEN [users EXCEPT ![r.row.token.user].is_verified = TRUE]
                ELSE users
    /\ vtokens' = IF r.row.stage = 2
                  THEN {x \in vtokens : x.token # r.row.token.token} \cup
                       {[r.row.token EXCEPT !.is_used = TRUE]}
                  ELSE vtokens
    /\ verifiedWith' = verifiedWith \cup {r.row.token.token}
    /\ inflight' = IF r.row.stage = 2
                   THEN inflight \ {r}
                   ELSE (inflight \ {r}) \cup {[r EXCEPT !.row.stage = 2]}
    /\ UNCHANGED <<now, ticks, rotate, cache, allowed, accounts,
                   blacklist_app, blacklist, rtokens, ftokens, jwts, sessions,
                   attempts, nextId>>

(* auth.EmailVerificationView.post: EmailVerificationSerializer looks the  *)
(* token up and checks is_valid before the view does the same again.       *)
EmailVerificationView_response(tok) ==
    LET found == RowsByToken(vtokens, tok) IN
    IF found = {}
    THEN Response(400, "Invalid verification token.")
    ELSE IF ~EmailVerificationToken_is_valid(CHOOSE r \in found : TRUE, now)
    THEN Response(400, "Verification token has expired or been used.")
    ELSE Response(200, "Email verified successfully")

EmailVerificationView_post(tok) ==
    IF EmailVerificationView_response(tok).status = 200
    THEN VerifyWith(tok)
    ELSE UNCHANGED vars

(* views.ResendVerificationView.post behind ResendVerificationSerializer.  *)
(* send_mail is not guarded here: a failure to send surfaces as a server   *)
(* error, after the tokens were written.                                   *)
ResendVerificationView_response(email, mail_ok) ==
    IF ~UserExists(email)
    THEN Response(400, "No user found with this email address.")
    ELSE IF users[email].is_verified
    THEN Response(400, "This email is already verified.")
    ELSE IF ~mail_ok
    THEN Response(500, "Internal Server Error")
    ELSE Response(200, "Verification email sent successfully.")

ResendVerificationView_post(email) ==
    IF ResendVerificationView_response(email, TRUE).status = 400
    THEN UNCHANGED vars
    ELSE /\ vtokens' = InvalidateUnused(vtokens, email)
                          \cup {NewToken(email, nextId.v, VerificationTTL)}
         /\ nextId' = [nextId EXCEPT !.v = @ + 1]
         /\ UNCHANGED <<now, ticks, rotate, cache, allowed, inflight,
                        accounts, blacklist_app, blacklist, users, rtokens,
                        ftokens, jwts, sessions, attempts, verifiedWith>>

(* date_joined__date = cutoff_date.date() *)
DateOf(t) == t \div HoursPerDay

(* send_verification_reminders: the users the command selects *)
unverified_users(days_old) ==
    {u \in Users : /\ users[u].registered
                   /\ ~users[u].is_verified
                   /\ users[u].is_active
                   /\ DateOf(users[u].date_joined)
                         = DateOf(now - days_old * HoursPerDay)}

(* The loop of the command: one new token per selected user, in queryset   *)
(* order; nothing is done to the tokens the user already has.              *)
RECURSIVE ReminderTokens(_, _)
ReminderTokens(todo, id) ==
    IF todo = {} THEN {}
    ELSE LET u == CHOOSE x \in todo : TRUE IN
         {NewToken(u, id, VerificationTTL)} \cup ReminderTokens(todo \ {u}, id + 1)

send_verification_reminders(days_old, dry_run) ==
    LET todo == unverified_users(days_old) IN
    IF dry_run
    THEN UNCHANGED vars
    ELSE /\ vtokens' = vtokens \cup ReminderTokens(todo, nextId.v)
         /\ nextId' = [nextId EXCEPT !.v = @ + Cardinality(todo)]
         /\ UNCHANGED <<now, ticks, rotate, cache, allowed, inflight,
                        accounts, blacklist_app, blacklist, users, rtokens,
                        ftokens, jwts, sessions, attempts, verifiedWith>>

(* views.PasswordResetRequestView.post: same answer whether or not the     *)
(* email is known; send_reset_email is not guarded.                        *)
PasswordResetRequestView_response(email, mail_ok) ==
    IF UserExists(email) /\ ~mail_ok
    THEN Response(500, "Internal Server Error")
    ELSE Response(200,
        "If an account with this email exists, a password reset link has been sent.")

PasswordResetRequestView_post(email) ==
    IF ~UserExists(email)
    THEN UNCHANGED vars
    ELSE /\ rtokens' = InvalidateUnused(rtokens, email)
                          \cup {NewToken(email, nextId.r, ResetTTL)}
         /\ nextId' = [nextId EXCEPT !.r = @ + 1]
         /\ UNCHANGED <<now, ticks, rotate, cache, allowed, inflight,
                        accounts, blacklist_app, blacklist, users, vtokens,
                        ftokens, jwts, sessions, attempts, verifiedWith>>

(* views.PasswordResetConfirmView.post behind                              *)
(* PasswordResetConfirmSerializer: validate_token, then validate().        *)
PasswordResetConfirmView_response(tok, confirm_ok) ==
    LET found == RowsByToken(rtokens, tok) IN
    IF found = {}
    THEN Response(400, "Invalid reset token.")
    ELSE IF ~PasswordResetToken_is_valid(CHOOSE r \in found : TRUE, now)
    THEN Response(400, "Reset token has expired or been used.")
    ELSE IF ~confirm_ok
    THEN Response(400, "Password and password confirmation don't match.")
    ELSE Response(200,
        "Password reset successful. You can now login with your new password.")

PasswordResetConfirmView_post(tok, p, confirm_ok) ==
    IF PasswordResetConfirmView_response(tok, confirm_ok).status # 200
    THEN UNCHANGED vars
    ELSE LET row == CHOOSE r \in RowsByToken(rtokens, tok) : TRUE IN
         /\ users' = [users EXCEPT ![row.user].password = p]
         /\ rtokens' = (rtokens \ {row}) \cup {[row EXCEPT !.is_used = TRUE]}
         /\ ftokens' = RevokeAll(ftokens, row.user)
         /\ UNCHANGED <<now, ticks, rotate, cache, allowed, inflight,
                        accounts, blacklist_app, blacklist, vtokens, jwts,
                        sessions, attempts, nextId, verifiedWith>>

(* views.PasswordResetConfirmView.post up to its first write: the          *)
(* serializer and then the view read the token row and check is_valid; the *)
(* request holds the row in memory.  auth.PasswordResetView.post makes the *)
(* same steps in the same order.                                           *)
PasswordResetConfirmView_post_begin(tok, p, confirm_ok) ==
    /\ PasswordResetConfirmView_response(tok, confirm_ok).status = 200
    /\ inflight' = inflight \cup
         {Request("confirm",
                  [id |-> 0, stage |-> 1,
                   token |-> CHOOSE r \in RowsByToken(rtokens, tok) : TRUE],
                  p)}
    /\ UNCHANGED <<now, ticks, rotate, cache, allowed, accounts,
                   blacklist_app, blacklist, users, vtokens, rtokens, ftokens,
                   jwts, sessions, attempts, nextId, verifiedWith>>

(* views.PasswordResetConfirmView.post, one of its three writes, in the    *)
(* order of the code: user.set_password(password); user.save(), then       *)
(* reset_token.is_used = True; reset_token.save(), then the update that    *)
(* revokes the user's refresh tokens.  No lock is taken on the token row   *)
(* and no write is conditional on the row being unused.                    *)
PasswordResetConfirmView_post_write(r) ==
    /\ r \in inflight
    /\ r.view = "confirm"
    /\ users' = IF r.row.stage = 1
                THEN [users EXCEPT ![r.row.token.user].password = r.password]
                ELSE users
    /\ rtokens' = IF r.row.stage = 2
                  THEN {x \in rtokens : x.token # r.row.token.token} \cup
                       {[r.row.token EXCEPT !.is_used = TRUE]}
                  ELSE rtokens
    /\ ftokens' = IF r.row.stage = 3
                  THEN RevokeAll(ftokens, r.row.token.user)
                  ELSE ftokens
    /\ inflight' = IF r.row.stage = 3
                   THEN inflight \ {r}
                   ELSE (inflight \ {r}) \cup
                        {[r EXCEPT !.row.stage = @ + 1]}
    /\ UNCHANGED <<now, ticks, rotate, cache, allowed, accounts,
                   blacklist_app, blacklist, vtokens, jwts, sessions,
                   attempts, nextId, verifiedWith>>

(* Variant: cleanup also removes the used rows *)
ExpiredOrUsed(table) == {r \in table : r.expires_at < now \/ r.is_used}

(* expires_at__lt=now *)
Expired(table) == {r \in table : r.expires_at < now}

(* management command cleanup_tokens *)
cleanup_tokens(dry_run) ==
    /\ IF dry_run
       THEN UNCHANGED <<vtokens, rtokens, ftokens>>
       ELSE /\ vtokens' = vtokens \ Expired(vtokens)
            /\ rtokens' = rtokens \ Expired(rtokens)
            /\ ftokens' = ftokens \ Expired(ftokens)
    /\ UNCHANGED <<now, ticks, rotate, cache, allowed, inflight, accounts,
                   blacklist_app, blacklist, users, jwts, sessions, attempts,
                   nextId, verifiedWith>>

(* Variant: a row that expires at the instant of the command is removed *)
ExpiredAtOrBefore(table, t) == {r \in table : r.expires_at <= t}

(* expires_at__lt=now, with the now the command read when it started *)
ExpiredBefore(table, t) == {r \in table : r.expires_at < t}

(* management command cleanup_tokens without --dry-run, up to its deletes: *)
(* it reads the clock once and counts the expired rows.                    *)
cleanup_tokens_begin ==
    /\ inflight' = inflight \cup
         {Request("cleanup", [id |-> 0, at |-> now, stage |-> 1], "")}
    /\ UNCHANGED <<now, ticks, rotate, cache, allowed, accounts,
                   blacklist_app, blacklist, users, vtokens, rtokens, ftokens,
                   jwts, sessions, attempts, nextId, verifiedWith>>

(* management command cleanup_tokens, one of its three deletes, in the     *)
(* order of the code: verification, reset and refresh tokens.  Each delete *)
(* is a query of its own, run with the clock value read at the start.      *)
cleanup_tokens_delete(r) ==
    /\ r \in inflight
    /\ r.view = "cleanup"
    /\ vtokens' = IF r.row.stage = 1
                  THEN vtokens \ ExpiredBefore(vtokens, r.row.at)
                  ELSE vtokens
    /\ rtokens' = IF r.row.stage = 2
                  THEN rtokens \ ExpiredBefore(rtokens, r.row.at)
                  ELSE rtokens
    /\ ftokens' = IF r.row.stage = 3
                  THEN ftokens \ ExpiredBefore(ftokens, r.row.at)
                  ELSE ftokens
    /\ inflight' = IF r.row.stage = 3
                   THEN inflight \ {r}
                   ELSE (inflight \ {r}) \cup
                        {[r EXCEPT !.row.stage = @ + 1]}
    /\ UNCHANGED <<now, ticks, rotate, cache, allowed, accounts,
                   blacklist_app, blacklist, users, jwts, sessions, attempts,
                   nextId, verifiedWith>>

(* utils.cleanup_expired_tokens: its first statement imports               *)
(* CustomRefreshToken from .models, a name models.py does not define, so   *)
(* the call raises ImportError before any query runs.                      *)
cleanup_expired_tokens == UNCHANGED vars

----------------------------------------------------------------------------
(* Login, refresh, deactivation *)

(* django.contrib.auth.authenticate with the default ModelBackend: the     *)
(* user is looked up by email, the password is checked, and                *)
(* user_can_authenticate() turns away a user whose is_active is false.     *)
authenticate(email, password) ==
    IF UserExists(email) /\ users[email].password = password
                         /\ users[email].is_active
    THEN email
    ELSE NoOne

(* Variant: the is_verified check is missing *)
validate_without_verified_check(email, password) ==
    LET user == authenticate(email, password) IN
    IF user = NoOne
    THEN "Invalid email or password."
    ELSE IF ~users[user].is_active
    THEN "User account is disabled."
    ELSE ""

(* CustomTokenObtainPairSerializer.validate: the error it raises, "" if none *)
CustomTokenObtainPairSerializer_validate(email, password) ==
    LET user == authenticate(email, password) IN
    IF user = NoOne
    THEN "Invalid email or password."
    ELSE IF ~users[user].is_active
    THEN "User account is disabled."
    ELSE IF ~users[user].is_verified
    THEN "Email not verified. Please check your email for verification link."
    ELSE ""

(* CustomTokenObtainPairView.post, except branch: the stored failure_reason *)
failure_reason(msg) ==
    IF msg = "Invalid email or password." THEN "Invalid credentials"
    ELSE IF msg = "Email not verified. Please check your email for verification link."
    THEN "Email not verified"
    ELSE IF msg = "User account is disabled." THEN "Account disabled"
    ELSE msg

CustomTokenObtainPairView_response(email, password) ==
    LET err == CustomTokenObtainPairSerializer_validate(email, password) IN
    IF err = "" THEN Response(200, "") ELSE Response(400, err)

(* LoginAttempt.objects.create(...) *)
NewAttempt(email, ip, success, reason) ==
    [id |-> nextId.a, email |-> email, ip_address |-> ip, success |-> success,
     failure_reason |-> reason, attempted_at |-> now]

(* UserSession.objects.create(...) *)
NewSession(u, ip) ==
    [id |-> nextId.s, user |-> u, ip_address |-> ip, is_active |-> TRUE,
     last_activity |-> now]

(* RefreshToken.for_user(user): a signed refresh JWT; nothing is stored *)
NewJwt(u) == [token |-> nextId.j, user |-> u, exp |-> now + RefreshTTL]

(* Variant: every login is recorded as successful *)
post_recording_success(email, password, ip) ==
    /\ IF CustomTokenObtainPairView_response(email, password).status = 200
       THEN /\ jwts' = jwts \cup {NewJwt(email)}
            /\ attempts' = attempts \cup {NewAttempt(email, ip, TRUE, "")}
            /\ sessions' = sessions \cup {NewSession(email, ip)}
            /\ nextId' = [nextId EXCEPT !.a = @ + 1, !.j = @ + 1, !.s = @ + 1]
       ELSE /\ attempts' = attempts \cup {NewAttempt(email, ip, TRUE, "")}
            /\ nextId' = [nextId EXCEPT !.a = @ + 1]
            /\ UNCHANGED <<jwts, sessions>>
    /\ UNCHANGED <<now, ticks, rotate, cache, allowed, inflight, accounts,
                   blacklist_app, blacklist, users, vtokens, rtokens, ftokens,
                   verifiedWith>>

(* views.CustomTokenObtainPairView.post (routed as login/) *)
CustomTokenObtainPairView_post(email, password, ip) ==
    /\ IF CustomTokenObtainPairView_response(email, password).status = 200
       THEN /\ jwts' = jwts \cup {NewJwt(email)}
            /\ attempts' = attempts \cup {NewAttempt(email, ip, TRUE, "")}
            /\ sessions' = sessions \cup {NewSession(email, ip)}
            /\ nextId' = [nextId EXCEPT !.a = @ + 1, !.j = @ + 1, !.s = @ + 1]
       ELSE /\ attempts' = attempts \cup
                 {NewAttempt(email, ip, FALSE,
                    failure_reason(
                      CustomTokenObtainPairSerializer_validate(email, password)))}
            /\ nextId' = [nextId EXCEPT !.a = @ + 1]
            /\ UNCHANGED <<jwts, sessions>>
    /\ UNCHANGED <<now, ticks, rotate, cache, allowed, inflight, accounts,
                   blacklist_app, blacklist, users, vtokens, rtokens, ftokens,
                   verifiedWith>>

(* UserLoginSerializer (imported by auth.py): the error it reports, "" if  *)
(* none                                                                    *)
UserLoginSerializer_validate(email, password) ==
    IF ~(UserExists(email) /\ users[email].password = password)
    THEN "InvalidCredentials"
    ELSE IF ~users[email].is_active THEN "AccountDisabled"
    ELSE IF ~users[email].is_verified THEN "EmailNotVerified"
    ELSE ""

LoginView_response(email, password) ==
    LET err == UserLoginSerializer_validate(email, password) IN
    IF err = "" THEN Response(200, "Login successful") ELSE Response(401, err)

(* auth.LoginView.post: the attempt is stored as failed first and updated; *)
(* a RefreshToken row is stored for the refresh JWT.                       *)
LoginView_post(email, password, ip) ==
    /\ IF LoginView_response(email, password).status = 200
       THEN /\ jwts' = jwts \cup {NewJwt(email)}
            /\ ftokens' = ftokens \cup
                 {[token |-> nextId.j, user |-> email,
                   expires_at |-> now + RefreshTTL, is_revoked |-> FALSE]}
            /\ sessions' = sessions \cup {NewSession(email, ip)}
            /\ attempts' = attempts \cup {NewAttempt(email, ip, TRUE, "")}
            /\ nextId' = [nextId EXCEPT !.a = @ + 1, !.j = @ + 1, !.s = @ + 1]
       ELSE /\ attempts' = attempts \cup
                 {NewAttempt(email, ip, FALSE,
                             UserLoginSerializer_validate(email, password))}
            /\ nextId' = [nextId EXCEPT !.a = @ + 1]
            /\ UNCHANGED <<jwts, ftokens, sessions>>
    /\ UNCHANGED <<now, ticks, rotate, cache, allowed, inflight, accounts,
                   blacklist_app, blacklist, users, vtokens, rtokens,
                   verifiedWith>>

(* views.CustomTokenObtainPairView.post up to its first write: the token   *)
(* pair is built and the LoginAttempt stored; a rejected login ends here.  *)
CustomTokenObtainPairView_post_begin(email, password, ip) ==
    /\ IF CustomTokenObtainPairView_response(email, password).status = 200
       THEN /\ jwts' = jwts \cup {NewJwt(email)}
            /\ attempts' = attempts \cup {NewAttempt(email, ip, TRUE, "")}
            /\ inflight' = inflight \cup
                 {Request("views", NewAttempt(email, ip, TRUE, ""), password)}
            /\ nextId' = [nextId EXCEPT !.a = @ + 1, !.j = @ + 1]
       ELSE /\ attempts' = attempts \cup
                 {NewAttempt(email, ip, FALSE,
                    failure_reason(
                      CustomTokenObtainPairSerializer_validate(email, password)))}
            /\ nextId' = [nextId EXCEPT !.a = @ + 1]
            /\ UNCHANGED <<jwts, inflight>>
    /\ UNCHANGED <<now, ticks, rotate, cache, allowed, accounts,
                   blacklist_app, blacklist, users, vtokens, rtokens, ftokens,
                   sessions, verifiedWith>>

(* views.CustomTokenObtainPairView.post, the rest: the UserSession *)
CustomTokenObtainPairView_post_end(r) ==
    /\ r \in inflight
    /\ r.view = "views"
    /\ sessions' = sessions \cup {NewSession(r.row.email, r.row.ip_address)}
    /\ nextId' = [nextId EXCEPT !.s = @ + 1]
    /\ inflight' = inflight \ {r}
    /\ UNCHANGED <<now, ticks, rotate, cache, allowed, accounts,
                   blacklist_app, blacklist, users, vtokens, rtokens, ftokens,
                   jwts, attempts, verifiedWith>>

(* auth.LoginView.post up to its first write: the LoginAttempt is stored   *)
(* with success=False before the credentials are looked at.                *)
LoginView_post_begin(email, password, ip) ==
    /\ attempts' = attempts \cup {NewAttempt(email, ip, FALSE, "")}
    /\ inflight' = inflight \cup
         {Request("auth", NewAttempt(email, ip, FALSE, ""), password)}
    /\ nextId' = [nextId EXCEPT !.a = @ + 1]
    /\ UNCHANGED <<now, ticks, rotate, cache, allowed, accounts,
                   blacklist_app, blacklist, users, vtokens, rtokens, ftokens,
                   jwts, sessions, verifiedWith>>

(* login_attempt.save(): the row with the primary key of the object is     *)
(* overwritten, or inserted again where it was deleted meanwhile.          *)
SaveAttempt(table, row) == {a \in table : a.id # row.id} \cup {row}

(* auth.LoginView.post, the rest: the RefreshToken row and the UserSession *)
(* are written and the stored LoginAttempt is updated to success=True, or  *)
(* the serializer's errors are written into its failure_reason.            *)
LoginView_post_end(r) ==
    /\ r \in inflight
    /\ r.view = "auth"
    /\ IF LoginView_response(r.row.email, r.password).status = 200
       THEN /\ jwts' = jwts \cup {NewJwt(r.row.email)}
            /\ ftokens' = ftokens \cup
                 {[token |-> nextId.j, user |-> r.row.email,
                   expires_at |-> now + RefreshTTL, is_revoked |-> FALSE]}
            /\ sessions' = sessions \cup
                 {NewSession(r.row.email, r.row.ip_address)}
            /\ attempts' = SaveAttempt(attempts,
                                       [r.row EXCEPT !.success = TRUE])
            /\ nextId' = [nextId EXCEPT !.j = @ + 1, !.s = @ + 1]
       ELSE /\ attempts' = SaveAttempt(attempts,
                 [r.row EXCEPT !.failure_reason =
                    UserLoginSerializer_validate(r.row.email, r.password)])
            /\ UNCHANGED <<jwts, ftokens, sessions, nextId>>
    /\ inflight' = inflight \ {r}
    /\ UNCHANGED <<now, ticks, rotate, cache, allowed, accounts,
                   blacklist_app, blacklist, users, vtokens, rtokens,
                   verifiedWith>>

(* The process serving a request stops between two writes of the request:  *)
(* no view opens a transaction, the writes already made stay.              *)
request_stopped(r) ==
    /\ r \in inflight
    /\ inflight' = inflight \ {r}
    /\ UNCHANGED <<now, ticks, rotate, cache, allowed, accounts,
                   blacklist_app, blacklist, users, vtokens, rtokens, ftokens,
                   jwts, sessions, attempts, nextId, verifiedWith>>

(* manage.py reset_failed_login_attempts --email | --ip | --all | (none)   *)
reset_failed_login_attempts(option, email, ip) ==
    /\ attempts' =
         IF option = "email"
         THEN {a \in attempts : ~(a.email = email /\ ~a.success)}
         ELSE IF option = "ip"
         THEN {a \in attempts : ~(a.ip_address = ip /\ ~a.success)}
         ELSE IF option = "all"
         THEN {a \in attempts :
                 ~(~a.success /\ a.attempted_at < now - ResetAllAfter)}
         ELSE attempts
    /\ UNCHANGED <<now, ticks, rotate, cache, allowed, inflight, accounts,
                   blacklist_app, blacklist, users, vtokens, rtokens, ftokens,
                   jwts, sessions, nextId, verifiedWith>>

(* utils.is_suspicious_activity: the failed LoginAttempt rows of the IP    *)
(* address with attempted_at >= now - 1 hour                               *)
recent_failures(ip) ==
    Cardinality({a \in attempts : /\ a.ip_address = ip
                                  /\ ~a.success
                                  /\ a.attempted_at >= now - SuspiciousWindow})

(* UserSession.objects.filter(user=user, ip_address=ip_address).exists() *)
previous_sessions(user, ip) ==
    \E x \in sessions : x.user = user /\ x.ip_address = ip

(* Variant: the flag trips above the threshold *)
is_suspicious_above_threshold(user, ip) ==
    IF recent_failures(ip) > SuspiciousThreshold
    THEN [suspicious |-> TRUE,
          reason |-> "Multiple failed login attempts from this IP"]
    ELSE IF user # NoOne /\ ~previous_sessions(user, ip)
    THEN [suspicious |-> TRUE, reason |-> "Login from new location"]
    ELSE [suspicious |-> FALSE, reason |-> "Activity appears normal"]

(* utils.is_suspicious_activity(user, ip_address, user_agent); user may be *)
(* None                                                                    *)
is_suspicious_activity(user, ip) ==
    IF recent_failures(ip) >= SuspiciousThreshold
    THEN [suspicious |-> TRUE,
          reason |-> "Multiple failed login attempts from this IP"]
    ELSE IF user # NoOne /\ ~previous_sessions(user, ip)
    THEN [suspicious |-> TRUE, reason |-> "Login from new location"]
    ELSE [suspicious |-> FALSE, reason |-> "Activity appears normal"]

(* TokenRefreshSerializer.validate: RefreshToken(attrs["refresh"]) checks  *)
(* the signature and the exp claim of the JWT and, where the blacklist app *)
(* is installed, the blacklist; it reads nothing in the RefreshToken table.*)
JwtValidIn(tok, bl) ==
    /\ \E j \in jwts : j.token = tok /\ now < j.exp
    /\ tok \notin bl

JwtValid(tok) == JwtValidIn(tok, blacklist)

JwtUser(tok) == (CHOOSE j \in jwts : j.token = tok).user

(* rest_framework_simplejwt TokenRefreshView.post (routed as token/refresh/) *)
TokenRefreshView_response(tok) ==
    IF JwtValid(tok) THEN Response(200, "access")
    ELSE Response(401, "Token is invalid or expired")

TokenRefreshView_post(tok) ==
    IF TokenRefreshView_response(tok).status = 200 /\ rotate
    THEN /\ jwts' = jwts \cup {NewJwt(JwtUser(tok))}
         /\ nextId' = [nextId EXCEPT !.j = @ + 1]
         /\ UNCHANGED <<now, ticks, rotate, cache, allowed, inflight,
                        accounts, blacklist_app, blacklist, users, vtokens,
                        rtokens, ftokens, sessions, attempts, verifiedWith>>
    ELSE UNCHANGED vars

(* auth.CustomTokenRefreshView.post *)
CustomTokenRefreshView_response(tok) ==
    IF JwtValid(tok) THEN Response(200, "access")
    ELSE Response(401, "Invalid or expired refresh token")

(* RefreshToken.revoke on the row found by token, if there is one *)
RevokeByToken(table, tok) ==
    {IF r.token = tok THEN [r EXCEPT !.is_revoked = TRUE] ELSE r : r \in table}

CustomTokenRefreshView_post(tok) ==
    IF CustomTokenRefreshView_response(tok).status = 200 /\ rotate
    THEN /\ jwts' = jwts \cup {NewJwt(JwtUser(tok))}
         /\ ftokens' = RevokeByToken(ftokens, tok)
         /\ nextId' = [nextId EXCEPT !.j = @ + 1]
         /\ UNCHANGED <<now, ticks, rotate, cache, allowed, inflight,
                        accounts, blacklist_app, blacklist, users, vtokens,
                        rtokens, sessions, attempts, verifiedWith>>
    ELSE UNCHANGED vars

(* IsAuthenticated: the caller holds an access token from a login and      *)
(* JWTAuthentication accepts the user (is_active)                          *)
Authenticated(u) ==
    /\ UserExists(u)
    /\ users[u].is_active
    /\ \E j \in jwts : j.user = u

(* Variant: deactivation also clears is_verified *)
deactivate_and_unverify(u) ==
    /\ Authenticated(u)
    /\ users' = [users EXCEPT ![u].is_active = FALSE, ![u].is_verified = FALSE]
    /\ UNCHANGED <<now, ticks, rotate, cache, allowed, inflight, accounts,
                   blacklist_app, blacklist, vtokens, rtokens, ftokens, jwts,
                   sessions, attempts, nextId, verifiedWith>>

(* accounts.views.deactivate_account: is_active is saved as false, then    *)
(* create_user_activity_log raises (it imports UserActivityLog from        *)
(* authentication.models) and the request ends as a server error.          *)
deactivate_account(u) ==
    /\ Authenticated(u)
    /\ users' = [users EXCEPT ![u].is_active = FALSE]
    /\ UNCHANGED <<now, ticks, rotate, cache, allowed, inflight, accounts,
                   blacklist_app, blacklist, vtokens, rtokens, ftokens, jwts,
                   sessions, attempts, nextId, verifiedWith>>

(* ChangePasswordSerializer: old password, then the confirmation *)
ChangePasswordView_response(u, old_password, confirm_ok) ==
    IF users[u].password # old_password
    THEN Response(400, "Old password is incorrect.")
    ELSE IF ~confirm_ok
    THEN Response(400, "New password and confirmation don't match.")
    ELSE Response(200,
        "Password changed successfully. Please login again with your new password.")

(* Variant: the refresh tokens are not revoked *)
change_password_without_revoking(u, old_password, new_password, confirm_ok) ==
    /\ Authenticated(u)
    /\ IF ChangePasswordView_response(u, old_password, confirm_ok).status = 200
       THEN /\ users' = [users EXCEPT ![u].password = new_password]
            /\ UNCHANGED ftokens
       ELSE UNCHANGED <<users, ftokens>>
    /\ UNCHANGED <<now, ticks, rotate, cache, allowed, inflight, accounts,
                   blacklist_app, blacklist, vtokens, rtokens, jwts, sessions,
                   attempts, nextId, verifiedWith>>

(* views.ChangePasswordView.post *)
ChangePasswordView_post(u, old_password, new_password, confirm_ok) ==
    /\ Authenticated(u)
    /\ IF ChangePasswordView_response(u, old_password, confirm_ok).status = 200
       THEN /\ users' = [users EXCEPT ![u].password = new_password]
            /\ ftokens' = RevokeAll(ftokens, u)
       ELSE UNCHANGED <<users, ftokens>>
    /\ UNCHANGED <<now, ticks, rotate, cache, allowed, inflight, accounts,
                   blacklist_app, blacklist, vtokens, rtokens, jwts, sessions,
                   attempts, nextId, verifiedWith>>

NoRefresh == -1

(* UserSession.objects.filter(user=user).update(is_active=False) *)
DeactivateSessions(table, u) ==
    {IF r.user = u THEN [r EXCEPT !.is_active = FALSE] ELSE r : r \in table}

(* CustomRefreshToken.objects.filter(user=user, token=tok).update(is_revoked=True) *)
RevokeOwnByToken(table, u, tok) ==
    {IF r.user = u /\ r.token = tok THEN [r EXCEPT !.is_revoked = TRUE] ELSE r
        : r \in table}

(* What a logout writes: the library's blacklist and the RefreshToken and *)
(* UserSession tables                                                      *)
LogoutState ==
    [blacklist |-> blacklist, ftokens |-> ftokens, sessions |-> sessions]

(* views.LogoutView.post, its writes.  With a refresh token in the body    *)
(* the view builds the library's RefreshToken, which raises on a token     *)
(* that is invalid, expired or blacklisted, and calls blacklist(), which   *)
(* exists only where the blacklist app is installed; either exception is   *)
(* caught by the handler, which then answers 200 without having revoked    *)
(* the row or deactivated the sessions.                                    *)
LogoutView_effect(u, refresh, st) ==
    IF refresh = NoRefresh
    THEN [st EXCEPT !.ftokens = RevokeAll(@, u),
                    !.sessions = DeactivateSessions(@, u)]
    ELSE IF JwtValidIn(refresh, st.blacklist) /\ blacklist_app
    THEN [blacklist |-> st.blacklist \cup {refresh},
          ftokens |-> RevokeOwnByToken(st.ftokens, u, refresh),
          sessions |-> DeactivateSessions(st.sessions, u)]
    ELSE st

(* Variant: the exceptions of the token library reach the caller *)
logout_response_rejecting(u, refresh) ==
    IF refresh # NoRefresh /\ ~JwtValid(refresh)
    THEN Response(401, "Token is invalid or expired")
    ELSE Response(200, "Logged out successfully.")

(* views.LogoutView.post, its answer: the same in the try and the except   *)
(* branch                                                                  *)
LogoutView_response(u, refresh) == Response(200, "Logged out successfully.")

(* views.LogoutView.post (routed as logout/) *)
LogoutView_post(u, refresh) ==
    /\ Authenticated(u)
    /\ LET st == LogoutView_effect(u, refresh, LogoutState) IN
         /\ blacklist' = st.blacklist
         /\ ftokens' = st.ftokens
         /\ sessions' = st.sessions
    /\ UNCHANGED <<now, ticks, rotate, cache, allowed, inflight, accounts,
                   blacklist_app, users, vtokens, rtokens, jwts, attempts,
                   nextId, verifiedWith>>

(* auth.LogoutView.post, its writes.  Only TokenError and DoesNotExist are *)
(* caught: a token the library rejects changes nothing; a token without a  *)
(* RefreshToken row is blacklisted and the sessions stay; the row is       *)
(* looked up by token alone.  Without a token nothing is written.          *)
auth_LogoutView_effect(u, refresh, st) ==
    IF refresh = NoRefresh \/ ~JwtValidIn(refresh, st.blacklist)
                          \/ ~blacklist_app
    THEN st
    ELSE IF RowsByToken(st.ftokens, refresh) = {}
    THEN [st EXCEPT !.blacklist = @ \cup {refresh}]
    ELSE [blacklist |-> st.blacklist \cup {refresh},
          ftokens |-> RevokeByToken(st.ftokens, refresh),
          sessions |-> DeactivateSessions(st.sessions, u)]

(* auth.LogoutView.post, its answer: blacklist() is missing where the      *)
(* blacklist app is not installed, and AttributeError is not caught.       *)
auth_LogoutView_response(refresh, st) ==
    IF refresh # NoRefresh /\ JwtValidIn(refresh, st.blacklist)
                          /\ ~blacklist_app
    THEN Response(500, "Internal Server Error")
    ELSE Response(200, "Successfully logged out")

(* auth.LogoutView.post *)
auth_LogoutView_post(u, refresh) ==
    /\ Authenticated(u)
    /\ LET st == auth_LogoutView_effect(u, refresh, LogoutState) IN
         /\ blacklist' = st.blacklist
         /\ ftokens' = st.ftokens
         /\ sessions' = st.sessions
    /\ UNCHANGED <<now, ticks, rotate, cache, allowed, inflight, accounts,
                   blacklist_app, users, vtokens, rtokens, jwts, attempts,
                   nextId, verifiedWith>>

(* UserSession.objects.filter(user=request.user, is_active=True) *)
ActiveSessions(u) == {x \in sessions : x.user = u /\ x.is_active}

(* views.UserSessionsView.get: the lists the view may answer with, the     *)
(* user's active sessions by last_activity descending; the order of rows   *)
(* with the same last_activity is the database's choice.                   *)
UserSessionsView_get(u) ==
    LET rows == ActiveSessions(u)
        n == Cardinality(rows)
    IN {q \in [1..n -> rows] :
          \A i, j \in 1..n :
              i < j => /\ q[i] # q[j]
                       /\ q[i].last_activity >= q[j].last_activity}

(* Variant: the session is looked up by its id alone *)
AnySession(u, session_id) == {x \in sessions : x.id = session_id}

(* UserSession.objects.get(id=session_id, user=request.user) *)
OwnSession(u, session_id) ==
    {x \in sessions : x.id = session_id /\ x.user = u}

(* views.revoke_session: its two exits *)
revoke_session_response(u, session_id) ==
    IF OwnSession(u, session_id) = {}
    THEN Response(404, "Session not found.")
    ELSE Response(200, "Session revoked successfully.")

(* Variant: the session row is deleted *)
revoke_session_deleting(u, session_id) ==
    /\ Authenticated(u)
    /\ sessions' = sessions \ OwnSession(u, session_id)
    /\ UNCHANGED <<now, ticks, rotate, cache, allowed, inflight, accounts,
                   blacklist_app, blacklist, users, vtokens, rtokens, ftokens,
                   jwts, attempts, nextId, verifiedWith>>

(* views.revoke_session: session.is_active = False; session.save(), which  *)
(* also sets last_activity (auto_now)                                      *)
revoke_session(u, session_id) ==
    /\ Authenticated(u)
    /\ sessions' = (sessions \ OwnSession(u, session_id)) \cup
                   {[x EXCEPT !.is_active = FALSE, !.last_activity = now]
                      : x \in OwnSession(u, session_id)}
    /\ UNCHANGED <<now, ticks, rotate, cache, allowed, inflight, accounts,
                   blacklist_app, blacklist, users, vtokens, rtokens, ftokens,
                   jwts, attempts, nextId, verifiedWith>>

(* manage.py cleanup_inactive_sessions --days N [--dry-run]: the sessions  *)
(* whose last_activity is older than N days are deleted, active or not.    *)
cleanup_inactive_sessions(days, dry_run) ==
    /\ sessions' = IF dry_run
                   THEN sessions
                   ELSE {x \in sessions :
                           ~(x.last_activity < now - days * HoursPerDay)}
    /\ UNCHANGED <<now, ticks, rotate, cache, allowed, inflight, accounts,
                   blacklist_app, blacklist, users, vtokens, rtokens, ftokens,
                   jwts, attempts, nextId, verifiedWith>>

(* cache.get(cache_key, 0): the counter of the identifier, 0 without entry *)
current_count(identifier) ==
    IF cache[identifier] = NoEntry THEN 0 ELSE cache[identifier]

(* Variant: a call is denied only above the limit *)
within_limit_inclusive(count, limit) == count <= limit

(* utils.check_rate_limit: `if current_count >= limit: return False` *)
within_limit(count, limit) == count < limit

(* utils.check_rate_limit up to its write: the counter is read from the    *)
(* cache.  The caller keeps the value it read.                             *)
check_rate_limit_get(caller, identifier) ==
    /\ inflight' = inflight \cup
         {Request("rate",
                  [id |-> 0, caller |-> caller, identifier |-> identifier,
                   count |-> current_count(identifier)],
                  "")}
    /\ UNCHANGED <<now, ticks, rotate, cache, allowed, accounts,
                   blacklist_app, blacklist, users, vtokens, rtokens, ftokens,
                   jwts, sessions, attempts, nextId, verifiedWith>>

(* utils.check_rate_limit, the rest: at the limit the call is denied and   *)
(* writes nothing; below it cache.set stores the value read plus one, with *)
(* a new timeout, and the call is allowed.  The get and the set are two    *)
(* operations on the cache; allowed counts the calls allowed since the     *)
(* entry was last created.                                                 *)
check_rate_limit_set(r) ==
    /\ r \in inflight
    /\ r.view = "rate"
    /\ IF within_limit(r.row.count, DefaultRateLimit)
       THEN /\ cache' = [cache EXCEPT ![r.row.identifier] = r.row.count + 1]
            /\ allowed' = [allowed EXCEPT ![r.row.identifier] = @ + 1]
       ELSE UNCHANGED <<cache, allowed>>
    /\ inflight' = inflight \ {r}
    /\ UNCHANGED <<now, ticks, rotate, accounts, blacklist_app, blacklist,
                   users, vtokens, rtokens, ftokens, jwts, sessions, attempts,
                   nextId, verifiedWith>>

(* The timeout of the cache entry passes (window_minutes after its last    *)
(* set): the entry is gone                                                 *)
cache_entry_expired(identifier) ==
    /\ cache[identifier] # NoEntry
    /\ cache' = [cache EXCEPT ![identifier] = NoEntry]
    /\ allowed' = [allowed EXCEPT ![identifier] = 0]
    /\ UNCHANGED <<now, ticks, rotate, inflight, accounts, blacklist_app,
                   blacklist, users, vtokens, rtokens, ftokens, jwts, sessions,
                   attempts, nextId, verifiedWith>>

----------------------------------------------------------------------------
(* The operations with their inputs.  b bounds the exploration: how many   *)
(* clock advances and how many rows per table a behaviour may create.      *)

Advance(b, steps) == ticks < b.ticks /\ \E d \in steps : Tick(d)

Register(b) ==
    \E u \in Users, p \in RegisterPasswords :
        /\ UserExists(u) \/ nextId.v <= b.v
        /\ RegisterView_create(u, p)

VerifyEmail == \E t \in 0..(nextId.v - 1) : verify_email(t)

VerifyEmailAuth == \E t \in 0..(nextId.v - 1) : EmailVerificationView_post(t)

ResendVerification(b) ==
    \E e \in Emails : nextId.v <= b.v /\ ResendVerificationView_post(e)

Reminders(b) ==
    \E d \in DaysOld, dry \in BOOLEAN :
        /\ dry \/ nextId.v + Cardinality(unverified_users(d)) - 1 <= b.v
        /\ send_verification_reminders(d, dry)

RequestPasswordReset(b) ==
    \E e \in Emails : nextId.r <= b.r /\ PasswordResetRequestView_post(e)

ConfirmPasswordReset(b) ==
    \E t \in 0..(nextId.r - 1), p \in b.pw, c \in BOOLEAN :
        PasswordResetConfirmView_post(t, p, c)

CleanupTokens == \E dry \in BOOLEAN : cleanup_tokens(dry)

Login(b) ==
    \E e \in Emails, p \in Passwords, ip \in IPs :
        /\ nextId.a <= b.a
        /\ CustomTokenObtainPairView_response(e, p).status = 200
              => nextId.j <= b.j /\ nextId.s <= b.s
        /\ CustomTokenObtainPairView_post(e, p, ip)

LoginAuth(b) ==
    \E e \in Emails, p \in Passwords, ip \in IPs :
        /\ nextId.a <= b.a
        /\ LoginView_response(e, p).status = 200
              => nextId.j <= b.j /\ nextId.s <= b.s
        /\ LoginView_post(e, p, ip)

RefreshAccessToken(b) ==
    \E t \in 0..(nextId.j - 1) :
        /\ rotate => nextId.j <= b.j
        /\ TokenRefreshView_post(t)

RefreshAccessTokenAuth(b) ==
    \E t \in 0..(nextId.j - 1) :
        /\ rotate => nextId.j <= b.j
        /\ CustomTokenRefreshView_post(t)

Deactivate == \E u \in Users : deactivate_account(u)

ChangePassword ==
    \E u \in Users, old \in Passwords, new \in Passwords, c \in BOOLEAN :
        ChangePasswordView_post(u, old, new, c)

Logout ==
    \E u \in Users, t \in {NoRefresh} \cup 0..(nextId.j - 1) :
        LogoutView_post(u, t)

LogoutAuth ==
    \E u \in Users, t \in {NoRefresh} \cup 0..(nextId.j - 1) :
        auth_LogoutView_post(u, t)

LoginBegin(b) ==
    \E e \in Emails, p \in Passwords, ip \in IPs :
        /\ nextId.a <= b.a
        /\ CustomTokenObtainPairView_response(e, p).status = 200
              => nextId.j <= b.j
        /\ CustomTokenObtainPairView_post_begin(e, p, ip)

LoginEnd(b) ==
    \E r \in inflight :
        nextId.s <= b.s /\ CustomTokenObtainPairView_post_end(r)

LoginAuthBegin(b) ==
    \E e \in Emails, p \in Passwords, ip \in IPs :
        nextId.a <= b.a /\ LoginView_post_begin(e, p, ip)

LoginAuthEnd(b) ==
    \E r \in inflight :
        /\ r.view = "auth" /\ LoginView_response(r.row.email, r.password).status = 200
              => nextId.j <= b.j /\ nextId.s <= b.s
        /\ LoginView_post_end(r)

RequestStopped == \E r \in inflight : request_stopped(r)

ResetFailedLoginAttempts ==
    \E o \in {"email", "ip", "all", ""}, e \in Emails, ip \in IPs :
        reset_failed_login_attempts(o, e, ip)

RegisterTyped(b) ==
    \E e \in RawEmails, n \in Usernames,
       p \in RegisterPasswords \cup WeakPasswords, c \in BOOLEAN :
        /\ nextId.v <= b.v
        /\ RegisterView_post(e, n, p, c)

CreateSuperuser(b) ==
    \E e \in RawEmails, n \in {NoUsername} \cup Usernames :
        /\ Cardinality(accounts) < b.accounts
        /\ create_superuser_with_profile(e, "pw1", n)

RegisterProbe(b) ==
    \E u \in ProbeEmails, p \in RegisterPasswords :
        /\ UserExists(u) \/ nextId.v <= b.v
        /\ RegisterView_create(u, p)

LoginProbe(b) ==
    \E e \in ProbeEmails, p \in RegisterPasswords, ip \in ProbeIPs :
        /\ nextId.a <= b.a
        /\ CustomTokenObtainPairView_response(e, p).status = 200
              => nextId.j <= b.j /\ nextId.s <= b.s
        /\ CustomTokenObtainPairView_post(e, p, ip)

LoginAuthProbe(b) ==
    \E e \in ProbeEmails, p \in RegisterPasswords, ip \in IPs :
        /\ nextId.a <= b.a
        /\ LoginView_response(e, p).status = 200
              => nextId.j <= b.j /\ nextId.s <= b.s
        /\ LoginView_post(e, p, ip)

RequestPasswordResetProbe(b) ==
    \E e \in ProbeEmails : nextId.r <= b.r /\ PasswordResetRequestView_post(e)

(* Two requests in flight differ in their view, token or password *)
VerifyEmailBegin(b) ==
    \E t \in 1..(nextId.v - 1) :
        /\ Cardinality(inflight) < b.requests
        /\ \A r \in inflight : r.view = "verify" => r.row.token.token # t
        /\ verify_email_begin(t)

VerifyEmailWrite == \E r \in inflight : verify_email_write(r)

ConfirmPasswordResetBegin(b) ==
    \E t \in 1..(nextId.r - 1), p \in b.pw :
        /\ Cardinality(inflight) < b.requests
        /\ \A r \in inflight :
              r.view = "confirm" /\ r.row.token.token = t => r.password # p
        /\ PasswordResetConfirmView_post_begin(t, p, TRUE)

ConfirmPasswordResetWrite ==
    \E r \in inflight : PasswordResetConfirmView_post_write(r)

LoginFrom(b, emails, ips) ==
    \E e \in emails, p \in RegisterPasswords, ip \in ips :
        /\ nextId.a <= b.a
        /\ CustomTokenObtainPairView_response(e, p).status = 200
              => nextId.j <= b.j /\ nextId.s <= b.s
        /\ CustomTokenObtainPairView_post(e, p, ip)

RevokeSession ==
    \E u \in Users, i \in 1..(nextId.s - 1) : revoke_session(u, i)

CleanupInactiveSessions ==
    \E d \in SessionDays, dry \in BOOLEAN : cleanup_inactive_sessions(d, dry)

ChangePasswordProbe ==
    \E u \in ProbeEmails, p \in RegisterPasswords :
        ChangePasswordView_post(u, p, p, TRUE)

LogoutProbe ==
    \E u \in ProbeEmails, t \in {NoRefresh} \cup 1..(nextId.j - 1) :
        LogoutView_post(u, t)

ResendVerificationProbe(b) ==
    \E e \in ProbeEmails : nextId.v <= b.v /\ ResendVerificationView_post(e)

CheckRateLimitGet(b) ==
    \E c \in 1..b.callers, i \in RateIdentifiers :
        /\ allowed[i] < b.allowed
        /\ \A r \in inflight : r.view = "rate" => r.row.caller # c
        /\ check_rate_limit_get(c, i)

CheckRateLimitSet == \E r \in inflight : check_rate_limit_set(r)

CacheEntryExpired == \E i \in RateIdentifiers : cache_entry_expired(i)

CleanupBegin(b) == Cardinality(inflight) < b.cleanups /\ cleanup_tokens_begin

CleanupDelete == \E r \in inflight : cleanup_tokens_delete(r)

CleanupDryRun == cleanup_tokens(TRUE)

IssueBounds ==
    [v |-> IssueMaxVerificationTokens, r |-> IssueMaxResetTokens, j |-> 0,
     s |-> 0, a |-> 0, ticks |-> 0, pw |-> RegisterPasswords]

TokBounds ==
    [v |-> TokMaxVerificationTokens, r |-> TokMaxResetTokens, j |-> 0, s |-> 0,
     a |-> 0, ticks |-> TokMaxTicks, pw |-> RegisterPasswords]

LoginBounds ==
    [v |-> LoginMaxVerificationTokens, r |-> LoginMaxResetTokens,
     j |-> LoginMaxJwts, s |-> LoginMaxSessions, a |-> LoginMaxAttempts,
     ticks |-> 0, pw |-> Passwords]

AllBounds ==
    [v |-> MaxVerificationTokens, r |-> MaxResetTokens, j |-> MaxJwts,
     s |-> MaxSessions, a |-> MaxAttempts, ticks |-> MaxTicks,
     pw |-> Passwords]

(* The token flows hold no JWT: the settings of the JWT library are fixed  *)
InitTokens == Init /\ rotate = FALSE /\ blacklist_app = FALSE

(* The issuing and the use of tokens at one instant: registration,         *)
(* verification, resend, reminders, password reset                         *)
NextIssue ==
    \/ Register(IssueBounds)
    \/ VerifyEmail
    \/ VerifyEmailAuth
    \/ ResendVerification(IssueBounds)
    \/ Reminders(IssueBounds)
    \/ RequestPasswordReset(IssueBounds)
    \/ ConfirmPasswordReset(IssueBounds)

SpecIssue == InitTokens /\ [][NextIssue]_vars

(* The token flows over time: registration, verification, password reset,  *)
(* cleanup                                                                 *)
NextTokens ==
    \/ Advance(TokBounds, TokTickSteps)
    \/ Register(TokBounds)
    \/ VerifyEmail
    \/ VerifyEmailAuth
    \/ ResendVerification(TokBounds)
    \/ Reminders(TokBounds)
    \/ RequestPasswordReset(TokBounds)
    \/ ConfirmPasswordReset(TokBounds)
    \/ CleanupTokens
    \/ cleanup_expired_tokens

SpecTokens == InitTokens /\ [][NextTokens]_vars

(* The routed login flows at one instant: registration, verification,      *)
(* login, refresh, password reset and change, logout, deactivation         *)
NextLogin ==
    \/ Register(LoginBounds)
    \/ VerifyEmail
    \/ RequestPasswordReset(LoginBounds)
    \/ ConfirmPasswordReset(LoginBounds)
    \/ Login(LoginBounds)
    \/ RefreshAccessToken(LoginBounds)
    \/ RefreshAccessTokenAuth(LoginBounds)
    \/ Deactivate
    \/ ChangePassword
    \/ Logout

SpecLogin == Init /\ [][NextLogin]_vars

(* The login views with their writes made one after the other, the flows   *)
(* around them and the retention command of the LoginAttempt table         *)
AuditBounds ==
    [v |-> AuditMaxVerificationTokens, r |-> AuditMaxResetTokens,
     j |-> AuditMaxJwts, s |-> AuditMaxSessions, a |-> AuditMaxAttempts,
     ticks |-> 0, pw |-> RegisterPasswords]

NextAudit ==
    \/ Register(AuditBounds)
    \/ VerifyEmail
    \/ LoginBegin(AuditBounds)
    \/ LoginEnd(AuditBounds)
    \/ LoginAuthBegin(AuditBounds)
    \/ LoginAuthEnd(AuditBounds)
    \/ RequestStopped
    \/ RefreshAccessToken(AuditBounds)
    \/ RequestPasswordReset(AuditBounds)
    \/ ConfirmPasswordReset(AuditBounds)
    \/ Logout
    \/ ResetFailedLoginAttempts

SpecAudit == InitTokens /\ [][NextAudit]_vars

(* The sessions and refresh tokens of the users at one instant: login by   *)
(* either view, change of password, logout by either view                  *)
SessionBounds ==
    [v |-> SessMaxVerificationTokens, r |-> 0, j |-> SessMaxJwts,
     s |-> SessMaxSessions, a |-> SessMaxAttempts, ticks |-> 0,
     pw |-> Passwords]

NextSession ==
    \/ Register(SessionBounds)
    \/ VerifyEmail
    \/ Login(SessionBounds)
    \/ LoginAuth(SessionBounds)
    \/ ChangePassword
    \/ Logout
    \/ LogoutAuth

(* No refresh is part of these flows: the rotation setting is fixed *)
InitSession == Init /\ rotate = FALSE

SpecSession == InitSession /\ [][NextSession]_vars

(* The failed logins of an IP address over the hours *)
FailureBounds ==
    [v |-> FailMaxVerificationTokens, r |-> 0, j |-> FailMaxJwts,
     s |-> FailMaxJwts, a |-> FailMaxAttempts, ticks |-> FailMaxTicks,
     pw |-> RegisterPasswords]

NextFailures ==
    \/ Advance(FailureBounds, HourSteps)
    \/ RegisterProbe(FailureBounds)
    \/ VerifyEmail
    \/ LoginProbe(FailureBounds)

SpecFailures == InitTokens /\ [][NextFailures]_vars

(* The cleanup command, delete by delete, beside the issuing of tokens     *)
(* and the clock                                                           *)
CleanupBounds ==
    [v |-> CleanMaxVerificationTokens, r |-> CleanMaxResetTokens,
     j |-> CleanMaxJwts, s |-> CleanMaxJwts, a |-> CleanMaxJwts,
     ticks |-> CleanMaxTicks, pw |-> RegisterPasswords,
     cleanups |-> CleanMaxCleanups]

NextCleanup ==
    \/ Advance(CleanupBounds, TickSteps)
    \/ RegisterProbe(CleanupBounds)
    \/ VerifyEmail
    \/ RequestPasswordResetProbe(CleanupBounds)
    \/ LoginAuthProbe(CleanupBounds)
    \/ CleanupBegin(CleanupBounds)
    \/ CleanupDelete
    \/ CleanupDryRun
    \/ cleanup_expired_tokens

SpecCleanup == InitTokens /\ [][NextCleanup]_vars

(* The consuming of verification and reset tokens, write by write, with    *)
(* requests that run at the same time and requests that stop               *)
ConsumeBounds ==
    [v |-> ConsMaxVerificationTokens, r |-> ConsMaxResetTokens,
     j |-> ConsMaxJwts, s |-> ConsMaxJwts, a |-> ConsMaxJwts,
     ticks |-> ConsMaxTicks, pw |-> ResetPasswords,
     requests |-> ConsMaxRequests]

NextConsume ==
    \/ Advance(ConsumeBounds, {ResetTTL})
    \/ RegisterProbe(ConsumeBounds)
    \/ RequestPasswordResetProbe(ConsumeBounds)
    \/ LoginAuthProbe(ConsumeBounds)
    \/ VerifyEmailBegin(ConsumeBounds)
    \/ VerifyEmailWrite
    \/ ConfirmPasswordResetBegin(ConsumeBounds)
    \/ ConfirmPasswordResetWrite
    \/ RequestStopped

SpecConsume == InitTokens /\ [][NextConsume]_vars

(* The refreshing of tokens that have a RefreshToken row, with rotation on *)
(* and off                                                                 *)
RotateBounds ==
    [v |-> RotMaxVerificationTokens, r |-> 0, j |-> RotMaxJwts,
     s |-> RotMaxLogins, a |-> RotMaxLogins, ticks |-> RotMaxTicks,
     pw |-> RegisterPasswords]

NextRotate ==
    \/ Advance(RotateBounds, TokTickSteps)
    \/ RegisterProbe(RotateBounds)
    \/ VerifyEmail
    \/ LoginAuthProbe(RotateBounds)
    \/ RefreshAccessToken(RotateBounds)
    \/ RefreshAccessTokenAuth(RotateBounds)
    \/ LogoutAuth

SpecRotate == Init /\ [][NextRotate]_vars

(* The sessions of two users: logins, the revoking and the listing of      *)
(* sessions                                                                *)
DeviceBounds ==
    [v |-> DevMaxVerificationTokens, r |-> 0, j |-> DevMaxLogins,
     s |-> DevMaxLogins, a |-> DevMaxLogins, ticks |-> DevMaxTicks,
     pw |-> RegisterPasswords]

NextDevices ==
    \/ Advance(DeviceBounds, {SuspiciousWindow})
    \/ Register(DeviceBounds)
    \/ VerifyEmail
    \/ LoginFrom(DeviceBounds, Users, IPs)
    \/ RevokeSession

(* No refresh is part of these flows; the blacklist app is installed *)
InitBlacklisting == InitSession /\ blacklist_app = TRUE

SpecDevices == InitBlacklisting /\ [][NextDevices]_vars

(* The sessions of one user on two addresses over months: logins, the      *)
(* closing of sessions and the cleanup of old sessions                     *)
LocationBounds ==
    [v |-> LocMaxVerificationTokens, r |-> 0, j |-> LocMaxLogins,
     s |-> LocMaxLogins, a |-> LocMaxLogins, ticks |-> LocMaxTicks,
     pw |-> RegisterPasswords]

NextLocations ==
    \/ Advance(LocationBounds, MonthSteps)
    \/ RegisterProbe(LocationBounds)
    \/ VerifyEmail
    \/ LoginFrom(LocationBounds, ProbeEmails, ProbeIPs)
    \/ Logout
    \/ RevokeSession
    \/ CleanupInactiveSessions

SpecLocations == InitBlacklisting /\ [][NextLocations]_vars

(* The flags of tokens and sessions under the operations that write them:  *)
(* issuing and resending, verification, password reset and change, login,  *)
(* refresh, logout, revoke_session                                         *)
FlagBounds ==
    [v |-> FlagMaxVerificationTokens, r |-> FlagMaxResetTokens,
     j |-> FlagMaxJwts, s |-> FlagMaxLogins, a |-> FlagMaxLogins,
     ticks |-> FlagMaxTicks, pw |-> RegisterPasswords]

NextFlags ==
    \/ Advance(FlagBounds, {VerificationTTL})
    \/ RegisterProbe(FlagBounds)
    \/ ResendVerificationProbe(FlagBounds)
    \/ VerifyEmail
    \/ RequestPasswordResetProbe(FlagBounds)
    \/ ConfirmPasswordReset(FlagBounds)
    \/ LoginAuthProbe(FlagBounds)
    \/ RefreshAccessTokenAuth(FlagBounds)
    \/ ChangePasswordProbe
    \/ LogoutProbe
    \/ RevokeSession

(* Rotation is on, so that a refresh writes a flag *)
InitRotating == Init /\ rotate = TRUE /\ blacklist_app = TRUE

SpecFlags == InitRotating /\ [][NextFlags]_vars

(* The rate limit of an identifier under calls that overlap *)
RateBounds == [callers |-> RateMaxCallers, allowed |-> RateMaxAllowed]

NextRate ==
    \/ CheckRateLimitGet(RateBounds)
    \/ CheckRateLimitSet
    \/ CacheEntryExpired
    \/ RequestStopped

SpecRate == InitTokens /\ [][NextRate]_vars

(* The creation of users with the email and the username as typed:         *)
(* registration and the superuser command                                  *)
AccountBounds ==
    [v |-> AccMaxVerificationTokens, accounts |-> AccMaxAccounts]

NextAccounts ==
    \/ RegisterTyped(AccountBounds)
    \/ CreateSuperuser(AccountBounds)
    \/ VerifyEmail

SpecAccounts == InitTokens /\ [][NextAccounts]_vars

(* Every operation *)
Next ==
    \/ Advance(AllBounds, TickSteps)
    \/ Register(AllBounds)
    \/ VerifyEmail
    \/ VerifyEmailAuth
    \/ ResendVerification(AllBounds)
    \/ Reminders(AllBounds)
    \/ RequestPasswordReset(AllBounds)
    \/ ConfirmPasswordReset(AllBounds)
    \/ CleanupTokens
    \/ cleanup_expired_tokens
    \/ Login(AllBounds)
    \/ LoginAuth(AllBounds)
    \/ RefreshAccessToken(AllBounds)
    \/ RefreshAccessTokenAuth(AllBounds)
    \/ Deactivate
    \/ ChangePassword
    \/ Logout

Spec == Init /\ [][Next]_vars

----------------------------------------------------------------------------
(* Properties *)

IssuedVerificationTokens == 1..(nextId.v - 1)

IssuedResetTokens == 1..(nextId.r - 1)

VerificationRow(tok) == CHOOSE r \in RowsByToken(vtokens, tok) : TRUE

ResetRow(tok) == CHOOSE r \in RowsByToken(rtokens, tok) : TRUE

(* C1 as stated: a token row is valid exactly when it is not used/revoked  *)
(* and now < expires_at; a verification or reset token presented at the    *)
(* instant now = expires_at is rejected.                                   *)
C1_ValidIffBeforeExpiry ==
    /\ \A r \in vtokens :
          /\ EmailVerificationToken_is_valid(r, now)
                <=> (~r.is_used /\ now < r.expires_at)
          /\ now = r.expires_at => verify_email_response(r.token).status # 200
    /\ \A r \in rtokens :
          /\ PasswordResetToken_is_valid(r, now)
                <=> (~r.is_used /\ now < r.expires_at)
          /\ now = r.expires_at
                => PasswordResetConfirmView_response(r.token, TRUE).status # 200
    /\ \A r \in ftokens :
          RefreshToken_is_valid(r, now) <=> (~r.is_revoked /\ now < r.expires_at)

(* C1 amended: a token row is valid exactly when it is not used/revoked    *)
(* and now <= expires_at, and VerifyEmail and ConfirmPasswordReset accept  *)
(* a token exactly when its row is valid in that sense: at the instant     *)
(* now = expires_at an unused token is still accepted.                     *)
C1_ValidUntilExpiryInclusive ==
    /\ \A r \in vtokens :
          /\ EmailVerificationToken_is_valid(r, now)
                <=> (~r.is_used /\ now <= r.expires_at)
          /\ verify_email_response(r.token).status = 200
                <=> (~r.is_used /\ now <= r.expires_at)
          /\ EmailVerificationView_response(r.token).status = 200
                <=> (~r.is_used /\ now <= r.expires_at)
    /\ \A r \in rtokens :
          /\ PasswordResetToken_is_valid(r, now)
                <=> (~r.is_used /\ now <= r.expires_at)
          /\ PasswordResetConfirmView_response(r.token, TRUE).status = 200
                <=> (~r.is_used /\ now <= r.expires_at)
    /\ \A r \in ftokens :
          RefreshToken_is_valid(r, now) <=> (~r.is_revoked /\ now <= r.expires_at)

(* An unused verification token at the very instant of its expiry *)
C1_Witness == \E r \in vtokens : ~r.is_used /\ now = r.expires_at

(* C2 as stated: a successful password reset confirmation leaves no        *)
(* refresh token of that user, issued before it, that RefreshAccessToken   *)
(* still accepts.                                                          *)
C2_ResetRevokesRefreshTokens ==
    [][\A t \in IssuedResetTokens, p \in Passwords :
          (/\ PasswordResetConfirmView_response(t, TRUE).status = 200
           /\ PasswordResetConfirmView_post(t, p, TRUE))
          => \A j \in jwts :
                j.user = ResetRow(t).user
                => /\ (TokenRefreshView_response(j.token))'.status # 200
                   /\ (CustomTokenRefreshView_response(j.token))'.status # 200]_vars

ValidVerificationTokens(u) ==
    {r \in vtokens : r.user = u /\ EmailVerificationToken_is_valid(r, now)}

ValidResetTokens(u) ==
    {r \in rtokens : r.user = u /\ PasswordResetToken_is_valid(r, now)}

(* C3 as stated: every user has at most one valid verification token and   *)
(* at most one valid password reset token.                                 *)
C3_AtMostOneValidToken ==
    \A u \in Users :
        /\ Cardinality(ValidVerificationTokens(u)) <= 1
        /\ Cardinality(ValidResetTokens(u)) <= 1

VerificationKind(tok) ==
    IF RowsByToken(vtokens, tok) = {} THEN "NotFound"
    ELSE LET r == VerificationRow(tok) IN
         IF r.is_used /\ now > r.expires_at THEN "ExpiredAndUsed"
         ELSE IF now > r.expires_at THEN "Expired"
         ELSE IF r.is_used THEN "AlreadyUsed"
         ELSE "Valid"

ResetKind(tok) ==
    IF RowsByToken(rtokens, tok) = {} THEN "NotFound"
    ELSE LET r == ResetRow(tok) IN
         IF r.is_used /\ now > r.expires_at THEN "ExpiredAndUsed"
         ELSE IF now > r.expires_at THEN "Expired"
         ELSE IF r.is_used THEN "AlreadyUsed"
         ELSE "Valid"

(* A token that was issued and has no row was removed by cleanup, which    *)
(* removes only rows past their expiry: its TTL has elapsed.               *)
VerificationTTLElapsed(tok) ==
    VerificationKind(tok) \in {"NotFound", "Expired", "ExpiredAndUsed"}

ResetTTLElapsed(tok) ==
    ResetKind(tok) \in {"NotFound", "Expired", "ExpiredAndUsed"}

(* C5 as stated: once its TTL has elapsed, an issued token is answered     *)
(* with the expired error and never with the not-found error, whether or   *)
(* not cleanup has run.                                                    *)
C5_ExpiredNeverNotFound ==
    /\ \A t \in IssuedVerificationTokens :
          VerificationTTLElapsed(t)
          => /\ verify_email_response(t).msg =
                    "Verification link has expired or been used."
             /\ EmailVerificationView_response(t).msg =
                    "Verification token has expired or been used."
    /\ \A t \in IssuedResetTokens :
          ResetTTLElapsed(t)
          => PasswordResetConfirmView_response(t, TRUE).msg =
                    "Reset token has expired or been used."

(* C5 amended: rows disappear only when they are past their expiry; an     *)
(* issued token past its expiry is answered with the expired-or-used error *)
(* as long as its row exists, and with the not-found error once cleanup    *)
(* has removed the row.                                                    *)
C5_ExpiredUntilCleanedUp ==
    [][/\ \A r \in vtokens :
            RowsByToken(vtokens', r.token) = {} => r.expires_at < now
       /\ \A r \in rtokens :
            RowsByToken(rtokens', r.token) = {} => r.expires_at < now
       /\ \A t \in IssuedVerificationTokens' :
            /\ VerificationKind(t)' \in {"Expired", "ExpiredAndUsed"}
               => /\ verify_email_response(t)'.msg =
                        "Verification link has expired or been used."
                  /\ EmailVerificationView_response(t)'.msg =
                        "Verification token has expired or been used."
            /\ VerificationKind(t)' = "NotFound"
               => /\ verify_email_response(t)'.msg = "Invalid verification link."
                  /\ EmailVerificationView_response(t)'.msg =
                        "Invalid verification token."
       /\ \A t \in IssuedResetTokens' :
            /\ ResetKind(t)' \in {"Expired", "ExpiredAndUsed"}
               => PasswordResetConfirmView_response(t, TRUE)'.msg =
                        "Reset token has expired or been used."
            /\ ResetKind(t)' = "NotFound"
               => PasswordResetConfirmView_response(t, TRUE)'.msg =
                        "Invalid reset token."]_vars

(* An issued verification token and an issued reset token whose rows       *)
(* cleanup removed                                                         *)
C5_Witness ==
    /\ \E t \in IssuedVerificationTokens : VerificationKind(t) = "NotFound"
    /\ \E t \in IssuedResetTokens : ResetKind(t) = "NotFound"

(* C6 as stated: VerifyEmail and ConfirmPasswordReset answer a token that  *)
(* is not found, one that is expired and one that is already used with     *)
(* three different errors.                                                 *)
C6_ThreeDistinctErrors ==
    LET Failing == {"NotFound", "Expired", "AlreadyUsed"} IN
    /\ \A t1 \in 0..(nextId.v - 1), t2 \in 0..(nextId.v - 1) :
          (/\ VerificationKind(t1) \in Failing
           /\ VerificationKind(t2) \in Failing
           /\ VerificationKind(t1) # VerificationKind(t2))
          => verify_email_response(t1) # verify_email_response(t2)
    /\ \A t1 \in 0..(nextId.r - 1), t2 \in 0..(nextId.r - 1) :
          (/\ ResetKind(t1) \in Failing
           /\ ResetKind(t2) \in Failing
           /\ ResetKind(t1) # ResetKind(t2))
          => PasswordResetConfirmView_response(t1, TRUE)
                # PasswordResetConfirmView_response(t2, TRUE)

(* C6 amended: VerifyEmail and ConfirmPasswordReset fail on a token that   *)
(* is not found, expired or already used, with two different errors: one   *)
(* for a token that is not found, and one and the same for a token that is *)
(* expired or already used.                                                *)
C6_TwoDistinctErrors ==
    LET Stale == {"Expired", "AlreadyUsed", "ExpiredAndUsed"} IN
    /\ \A t \in 0..(nextId.v - 1) :
          /\ VerificationKind(t) = "NotFound"
             => /\ verify_email_response(t) =
                      Response(400, "Invalid verification link.")
                /\ EmailVerificationView_response(t) =
                      Response(400, "Invalid verification token.")
          /\ VerificationKind(t) \in Stale
             => /\ verify_email_response(t) =
                      Response(400, "Verification link has expired or been used.")
                /\ EmailVerificationView_response(t) =
                      Response(400, "Verification token has expired or been used.")
    /\ \A t \in 0..(nextId.r - 1) :
          /\ ResetKind(t) = "NotFound"
             => PasswordResetConfirmView_response(t, TRUE) =
                      Response(400, "Invalid reset token.")
          /\ ResetKind(t) \in Stale
             => PasswordResetConfirmView_response(t, TRUE) =
                      Response(400, "Reset token has expired or been used.")

(* An expired unused token and a used unexpired token at the same time *)
C6_Witness ==
    \E t1 \in IssuedVerificationTokens, t2 \in IssuedVerificationTokens :
        VerificationKind(t1) = "Expired" /\ VerificationKind(t2) = "AlreadyUsed"

(* C7 as stated: a token VerifyEmail has accepted belongs to a verified    *)
(* user and is marked used, and any later VerifyEmail with it is answered  *)
(* with the already-used error.                                            *)
C7_SecondVerifyAlreadyUsed ==
    \A t \in verifiedWith :
        /\ verify_email_response(t) =
              Response(400, "Verification link has expired or been used.")
        /\ EmailVerificationView_response(t) =
              Response(400, "Verification token has expired or been used.")
        /\ RowsByToken(vtokens, t) # {}
           => /\ VerificationRow(t).is_used
              /\ users[VerificationRow(t).user].is_verified

(* C7 amended: VerifyEmail with a valid token sets the owning user's       *)
(* is_verified and marks that token used and changes nothing else; any     *)
(* later VerifyEmail with the same token fails and changes no state: with  *)
(* the expired-or-used error while the token's row exists, with the        *)
(* not-found error once cleanup has removed the row.                       *)
C7_VerifyOnceThenRejected ==
    [][\A t \in IssuedVerificationTokens :
         /\ (/\ VerificationKind(t) = "Valid"
             /\ verify_email(t) \/ EmailVerificationView_post(t))
            => LET row == VerificationRow(t) IN
               /\ users' = [users EXCEPT ![row.user].is_verified = TRUE]
               /\ vtokens' = (vtokens \ {row}) \cup {[row EXCEPT !.is_used = TRUE]}
               /\ UNCHANGED <<now, rotate, cache, allowed, inflight, accounts,
                              blacklist_app, blacklist, rtokens, ftokens,
                              jwts, sessions, attempts, nextId>>
               /\ verify_email_response(t)'.status = 400
               /\ EmailVerificationView_response(t)'.status = 400
         /\ t \in verifiedWith
            => /\ verify_email(t) \/ EmailVerificationView_post(t)
                    => UNCHANGED vars
               /\ IF RowsByToken(vtokens, t) # {}
                  THEN /\ VerificationRow(t).is_used
                       /\ users[VerificationRow(t).user].is_verified
                       /\ verify_email_response(t) =
                            Response(400, "Verification link has expired or been used.")
                       /\ EmailVerificationView_response(t) =
                            Response(400, "Verification token has expired or been used.")
                  ELSE /\ verify_email_response(t) =
                            Response(400, "Invalid verification link.")
                       /\ EmailVerificationView_response(t) =
                            Response(400, "Invalid verification token.")]_vars

(* A token that verified its user and is still stored, next to one that    *)
(* verified its user and was removed by cleanup                            *)
C7_Witness ==
    /\ \E t \in verifiedWith : RowsByToken(vtokens, t) # {}
    /\ \E t \in verifiedWith : RowsByToken(vtokens, t) = {}

C9_UnverifiedLoginRejected ==
    [][\A e \in Users, p \in Passwords, ip \in IPs :
         (/\ UserExists(e)
          /\ users[e].password = p
          /\ ~users[e].is_verified
          /\ CustomTokenObtainPairView_post(e, p, ip))
         => /\ CustomTokenObtainPairView_response(e, p) =
                 Response(400,
                   "Email not verified. Please check your email for verification link.")
            /\ UNCHANGED <<sessions, jwts, ftokens, users>>
            /\ attempts' = attempts \cup
                 {[id |-> nextId.a, email |-> e, ip_address |-> ip,
                   success |-> FALSE, failure_reason |-> "Email not verified",
                   attempted_at |-> now]}]_vars

(* A failed attempt recorded for a registered user who is not verified *)
C9_Witness ==
    \E a \in attempts :
        /\ ~a.success
        /\ a.failure_reason = "Email not verified"
        /\ UserExists(a.email) /\ ~users[a.email].is_verified

(* C10 as stated: login reports InvalidCredentials when the password check *)
(* fails, AccountDisabled when the password is correct and the account is  *)
(* not active, EmailNotVerified when the password is correct and the       *)
(* account is active and not verified.                                     *)
C10_LoginFailureKinds ==
    \A e \in Emails, p \in Passwords :
        LET r == CustomTokenObtainPairView_response(e, p)
            known == e \in Users /\ UserExists(e) /\ users[e].password = p
        IN  /\ ~known => r.msg = "Invalid email or password."
            /\ known /\ ~users[e].is_active
                  => r.msg = "User account is disabled."
            /\ known /\ users[e].is_active /\ ~users[e].is_verified
                  => r.msg =
                     "Email not verified. Please check your email for verification link."

----------------------------------------------------------------------------
(* C11: every login request that runs to its end, accepted or rejected,    *)
(* adds exactly one LoginAttempt row; the row carries the submitted email  *)
(* and IP address, and its success flag is set exactly when a token pair   *)
(* was issued. A login with a wrong password adds a failed attempt and no  *)
(* session.                                                                *)
C11_OneAttemptPerLogin ==
    [][\A e \in Emails, p \in Passwords, ip \in IPs :
         CustomTokenObtainPairView_post(e, p, ip) =>
           /\ \E a \in attempts' :
                 /\ a \notin attempts
                 /\ attempts' = attempts \cup {a}
                 /\ Cardinality(attempts') = Cardinality(attempts) + 1
                 /\ a.email = e
                 /\ a.ip_address = ip
                 /\ a.success <=> jwts' # jwts
                 /\ ~(UserExists(e) /\ users[e].password = p)
                      => ~a.success /\ sessions' = sessions]_vars

(* A verified user's login with a wrong password was recorded as failed    *)
(* and opened no session; the login that followed was recorded as          *)
(* successful and opened the user's only session.                          *)
C11_Witness ==
    \E a \in attempts, b \in attempts :
        /\ a.email = b.email
        /\ UserExists(a.email)
        /\ ~a.success
        /\ a.failure_reason = "Invalid credentials"
        /\ b.success
        /\ a.id < b.id
        /\ Cardinality({x \in sessions : x.user = a.email}) = 1
        /\ \E j \in jwts : j.user = a.email

----------------------------------------------------------------------------
(* The successful LoginAttempt rows of an email and IP address whose       *)
(* request has ended or stopped, and the sessions of that user and address *)
SettledSuccesses(e, ip) ==
    {a \in attempts : /\ a.success
                      /\ a.email = e
                      /\ a.ip_address = ip
                      /\ \A r \in inflight : r.row.id # a.id}

SessionsOf(e, ip) == {x \in sessions : x.user = e /\ x.ip_address = ip}

(* C12: the LoginAttempt write and the issuing of the session of one login *)
(* are atomic: in every state, a login stopped between two of its writes   *)
(* included, every LoginAttempt with success=true has a UserSession        *)
(* created by the same login (each successful attempt of an email and      *)
(* address is matched by a session of its own).                            *)
C12_SuccessHasSession ==
    \A e \in Emails, ip \in IPs :
        Cardinality(SettledSuccesses(e, ip)) <= Cardinality(SessionsOf(e, ip))

(* C13: a LoginAttempt row, once created, is never changed by a login,     *)
(* logout, refresh or reset flow: in every step each row stays as it is or *)
(* disappears, and rows disappear only in a step of the retention command. *)
C13_AttemptsAppendOnly ==
    [][/\ \A a \in attempts :
            a \in attempts' \/ \A b \in attempts' : b.id # a.id
       /\ (\E a \in attempts : \A b \in attempts' : b.id # a.id)
            => ResetFailedLoginAttempts]_vars

----------------------------------------------------------------------------
(* C14: a change of password with the correct old password and a matching  *)
(* confirmation sets the new password and marks every RefreshToken row of  *)
(* that user revoked, the rows of other users staying as they are; with a  *)
(* wrong old password or a confirmation that does not match, neither the   *)
(* password nor any token changes.                                         *)
C14_ChangePasswordRevokesAll ==
    [][\A u \in Users, old \in Passwords, new \in Passwords, c \in BOOLEAN :
         ChangePasswordView_post(u, old, new, c) =>
           IF users[u].password = old /\ c
           THEN /\ users' = [users EXCEPT ![u].password = new]
                /\ \A r \in ftokens' : r.user = u => r.is_revoked
                /\ {r \in ftokens' : r.user # u} = {r \in ftokens : r.user # u}
                /\ {r.token : r \in ftokens'} = {r.token : r \in ftokens}
                /\ Cardinality(ftokens') = Cardinality(ftokens)
           ELSE UNCHANGED <<users, ftokens>>]_vars

(* A user has changed the password while holding a refresh token, which is *)
(* now revoked; the refresh token of another user is not.                  *)
C14_Witness ==
    \E u \in Users, w \in Users :
        /\ u # w
        /\ UserExists(u)
        /\ users[u].password = "pw2"
        /\ \E r \in ftokens : r.user = u
        /\ \A r \in ftokens : r.user = u => r.is_revoked
        /\ \E r \in ftokens : r.user = w /\ ~r.is_revoked

----------------------------------------------------------------------------
(* C15: logout is idempotent.  In every state, for every authenticated     *)
(* user and every refresh token the user may name (valid, blacklisted or   *)
(* never issued), the routed logout answers with success and a second      *)
(* logout with the same token leaves the blacklist, the revocation flags   *)
(* and the session flags as the first left them; the same holds of the     *)
(* logout view of auth.py, which answers with success twice wherever the   *)
(* blacklist app it calls is installed.                                    *)
C15_LogoutIdempotent ==
    \A u \in Users, t \in 0..(nextId.j - 1) :
        Authenticated(u) =>
          LET first == LogoutView_effect(u, t, LogoutState)
              auth_first == auth_LogoutView_effect(u, t, LogoutState)
          IN  /\ LogoutView_response(u, t).status = 200
              /\ LogoutView_effect(u, t, first) = first
              /\ auth_LogoutView_effect(u, t, auth_first) = auth_first
              /\ blacklist_app =>
                   /\ auth_LogoutView_response(t, LogoutState).status = 200
                   /\ auth_LogoutView_response(t, auth_first).status = 200

(* A user has logged out naming a refresh token: the token is blacklisted, *)
(* its row revoked and the user's session closed, and the user can name    *)
(* the token again.                                                        *)
C15_Witness ==
    \E r \in ftokens :
        /\ r.token \in blacklist
        /\ r.is_revoked
        /\ Authenticated(r.user)
        /\ \E x \in sessions : x.user = r.user /\ ~x.is_active

----------------------------------------------------------------------------
(* C16: a logout that names a refresh token revokes only that token and    *)
(* closes only the session of that login (every login opens one session,   *)
(* so at most one session is closed), the user's other tokens and sessions *)
(* staying as they are; a logout that names none revokes all refresh       *)
(* tokens and closes all sessions of the user.  The tokens and sessions of *)
(* other users are unchanged in both cases.                                *)
C16_LogoutScope ==
    [][\A u \in Users, t \in {NoRefresh} \cup 0..(nextId.j - 1) :
         LogoutView_post(u, t) =>
           /\ {r \in ftokens' : r.user # u} = {r \in ftokens : r.user # u}
           /\ {x \in sessions' : x.user # u} = {x \in sessions : x.user # u}
           /\ IF t = NoRefresh
              THEN /\ \A r \in ftokens' : r.user = u => r.is_revoked
                   /\ \A x \in sessions' : x.user = u => ~x.is_active
              ELSE /\ \A r \in ftokens : r.token # t => r \in ftokens'
                   /\ Cardinality({x \in sessions : /\ x.user = u
                                                    /\ x.is_active
                                                    /\ x \notin sessions'})
                        <= 1]_vars

----------------------------------------------------------------------------
(* C17: a request for a password reset never reveals whether the email     *)
(* belongs to an account: whatever the outcome of the sending of the mail, *)
(* a failure included, the answer (status and message) for an email with   *)
(* an account equals the answer for an email without one.                  *)
C17_ResetRequestRevealsNothing ==
    \A e1 \in Emails, e2 \in Emails, mail_ok \in BOOLEAN :
        PasswordResetRequestView_response(e1, mail_ok)
            = PasswordResetRequestView_response(e2, mail_ok)

(* C18: a failure to send a mail never reaches the caller: registration,   *)
(* the resending of the verification mail and the request for a password   *)
(* reset answer as they do when the mail was sent (the answer of the       *)
(* registration does not depend on the sending at all).                    *)
C18_MailFailureSwallowed ==
    \A e \in Emails :
        /\ ResendVerificationView_response(e, FALSE)
             = ResendVerificationView_response(e, TRUE)
        /\ PasswordResetRequestView_response(e, FALSE)
             = PasswordResetRequestView_response(e, TRUE)

----------------------------------------------------------------------------
(* C19: the uniqueness of emails ignores case: after any sequence of       *)
(* registrations and runs of the superuser command, no two users have      *)
(* emails that are equal ignoring case.                                    *)
C19_EmailsUniqueIgnoringCase ==
    \A a \in accounts, b \in accounts :
        lower(a.email) = lower(b.email) => a = b

(* The rules of the registration that an input breaks *)
ViolatedRules(email, username, password, confirm_ok) ==
    (IF \E a \in accounts : lower(a.email) = lower(email)
     THEN {"A user with this email already exists."} ELSE {})
    \cup (IF \E a \in accounts : lower(a.username) = lower(username)
          THEN {"A user with this username already exists."} ELSE {})
    \cup (IF Len(username) < MinUsernameLen
          THEN {"Username must be at least 3 characters long."} ELSE {})
    \cup (IF ~username_charset_ok(username)
          THEN {"Username can only contain letters, numbers, and underscores."}
          ELSE {})
    \cup (IF ~password_strong(password)
          THEN {"This password is too weak."} ELSE {})
    \cup (IF ~confirm_ok
          THEN {"Password and password confirmation don't match."} ELSE {})

(* C20: a registration that breaks rules is answered with an error that    *)
(* names every rule broken, not only the first: for every input, each of   *)
(* duplicate email, duplicate username, short username, username charset,  *)
(* weak password and confirmation mismatch that applies is among the       *)
(* reported errors.                                                        *)
C20_AllViolationsReported ==
    \A e \in RawEmails, n \in Usernames,
       p \in RegisterPasswords \cup WeakPasswords, c \in BOOLEAN :
        ViolatedRules(e, n, p, c)
            \subseteq UserRegistrationSerializer_errors(e, n, p, c)

----------------------------------------------------------------------------
(* The failed logins from an IP address that are at most one hour old *)
FailuresWithinWindow(ip, t) ==
    {a \in attempts : /\ a.ip_address = ip
                      /\ ~a.success
                      /\ t - a.attempted_at <= SuspiciousWindow}

(* C21: the count of recent failures of an IP address goes up by one with  *)
(* every failed login from that address and with no other login; failures  *)
(* older than one hour do not count; is_suspicious_activity flags          *)
(* 'multiple failed attempts from this IP' exactly when the count is at    *)
(* least 5, so the flag first trips on the 5th failure.                    *)
C21_FlagOnFifthFailure ==
    [][\A ip \in ProbeIPs :
         LET k == recent_failures(ip) IN
         /\ (is_suspicious_activity(NoOne, ip).reason
                = "Multiple failed login attempts from this IP")
              <=> k >= 5
         /\ is_suspicious_activity(NoOne, ip).suspicious <=> k >= 5
         /\ \A e \in ProbeEmails, p \in RegisterPasswords, from \in ProbeIPs :
              CustomTokenObtainPairView_post(e, p, from) =>
                (recent_failures(ip))' =
                    IF from = ip
                       /\ CustomTokenObtainPairView_response(e, p).status # 200
                    THEN k + 1
                    ELSE k
         /\ \A d \in HourSteps :
              Tick(d) =>
                (recent_failures(ip))'
                    = Cardinality(FailuresWithinWindow(ip, now + d))]_vars

(* Five failed logins from one address within the hour, one of them at the *)
(* edge of the window, have tripped the flag; the address has no other     *)
(* recent failure, and an older failure from the other address no longer   *)
(* counts.                                                                 *)
C21_Witness ==
    \E ip \in ProbeIPs, other \in ProbeIPs :
        /\ ip # other
        /\ recent_failures(ip) = 5
        /\ is_suspicious_activity(NoOne, ip).suspicious
        /\ recent_failures(other) = 0
        /\ \E a \in attempts : a.ip_address = other /\ ~a.success
        /\ ~is_suspicious_activity(NoOne, other).suspicious

(* C22: the cleanup deletes a verification, reset or refresh token row only *)
(* when that row is expired, hence not valid, at the moment it is deleted,  *)
(* also when tokens are issued or consumed while the cleanup runs; a dry    *)
(* run changes nothing.  No step of the program makes a row disappear that  *)
(* was valid before the step.                                               *)
C22_CleanupDeletesOnlyExpired ==
    [][/\ \A r \in vtokens :
            RowsByToken(vtokens', r.token) = {}
              => /\ is_expired(r, now)
                 /\ ~EmailVerificationToken_is_valid(r, now)
       /\ \A r \in rtokens :
            RowsByToken(rtokens', r.token) = {}
              => /\ is_expired(r, now)
                 /\ ~PasswordResetToken_is_valid(r, now)
       /\ \A r \in ftokens :
            RowsByToken(ftokens', r.token) = {}
              => /\ is_expired(r, now)
                 /\ ~RefreshToken_is_valid(r, now)
       /\ cleanup_tokens(TRUE) => UNCHANGED <<vtokens, rtokens, ftokens>>]_vars

(* A cleanup has deleted an expired verification token and is about to     *)
(* delete refresh tokens, and a reset token issued after the cleanup       *)
(* started is still there and valid.                                       *)
C22_Witness ==
    \E c \in inflight :
        /\ c.view = "cleanup"
        /\ c.row.stage = 3
        /\ \E t \in 1..(nextId.v - 1) : RowsByToken(vtokens, t) = {}
        /\ \E r \in rtokens : /\ PasswordResetToken_is_valid(r, now)
                              /\ r.expires_at - ResetTTL >= c.row.at

(* The rows of a table whose token a step of a consuming flow marks used:  *)
(* unused before the step, used after it, in a step that issues no token   *)
(* (issuing a token is what marks the older tokens of the user used).      *)
MarkedUsed(table, table2) ==
    {r \in table : /\ ~r.is_used
                   /\ \E x \in table2 : x.token = r.token /\ x.is_used}

C27_SingleUseUnderConcurrency ==
    [][\A r \in inflight :
         /\ r.view = "confirm"
         /\ r.row.stage = 1
         /\ [r EXCEPT !.row.stage = 2] \in inflight'
         /\ users'[r.row.token.user].password = r.password
         /\ users[r.row.token.user].password # r.password
         => ~\E q \in inflight :
               /\ q.view = "confirm"
               /\ q.row.stage >= 2
               /\ q.row.token.token = r.row.token.token
               /\ q.password # r.password]_vars

(* C24: refresh rotation is a binary policy: a successful refresh through  *)
(* CustomTokenRefreshView of a token that has a RefreshToken row, with     *)
(* rotation on, revokes that row and leaves a valid RefreshToken row of    *)
(* the same user for the refresh token the response returns; with rotation *)
(* off it leaves the RefreshToken rows as they were.                       *)
C24_RotationIsBinary ==
    [][\A t \in 1..(nextId.j - 1) :
         /\ RowsByToken(ftokens, t) # {}
         /\ CustomTokenRefreshView_response(t).status = 200
         /\ CustomTokenRefreshView_post(t)
         => IF rotate
            THEN /\ \A r \in RowsByToken(ftokens', t) : r.is_revoked
                 /\ \E r \in ftokens' : /\ r.token = nextId.j
                                        /\ r.user = JwtUser(t)
                                        /\ RefreshToken_is_valid(r, now)
            ELSE UNCHANGED ftokens]_vars

(* C25: the check for a login from a new location finds a prior session of *)
(* user u on address ip exactly when u has ever logged in successfully     *)
(* from ip, also after a logout and after the cleanup of old sessions.     *)
(* The successful LoginAttempt rows, which nothing here deletes, are the   *)
(* record of the logins that succeeded.                                    *)
C25_PriorSessionMeansEverLoggedIn ==
    \A u \in ProbeEmails, ip \in ProbeIPs :
        previous_sessions(u, ip)
          <=> \E a \in attempts :
                 a.success /\ a.email = u /\ a.ip_address = ip

(* The number of UserSession rows of a user *)
SessionCount(table, u) == Cardinality({x.id : x \in {y \in table : y.user = u}})

(* C26: closing sessions deletes no row: a logout, with or without a       *)
(* refresh token, and revoke_session keep every UserSession row, with its  *)
(* id, user and address, and only is_active goes to false (a revoke also   *)
(* stamps last_activity); every user has as many rows after as before.     *)
C26_ClosingKeepsRows ==
    [][(\/ \E u \in Users, t \in {NoRefresh} \cup 0..(nextId.j - 1) :
             LogoutView_post(u, t)
        \/ \E u \in Users, i \in 1..(nextId.s - 1) : revoke_session(u, i))
       => /\ \A u \in Users :
               SessionCount(sessions', u) = SessionCount(sessions, u)
          /\ \A x \in sessions : \E y \in sessions' :
               /\ y.id = x.id
               /\ y.user = x.user
               /\ y.ip_address = x.ip_address
               /\ x.is_active = FALSE => y.is_active = FALSE]_vars

(* Two sessions of a user, opened or closed at different times, are both   *)
(* closed and both rows are still there.                                   *)
C26_Witness ==
    \E x, y \in sessions :
        /\ x.id # y.id
        /\ x.user = y.user
        /\ ~x.is_active /\ ~y.is_active
        /\ x.last_activity > y.last_activity

(* C29: the session operations are per user: revoke_session called by a    *)
(* user with the id of another user's session answers 404 'Session not     *)
(* found.' and leaves that session as it was, and every list             *)
(* UserSessionsView.get may answer holds the user's own active sessions,   *)
(* each once, none of another user, by last_activity descending.           *)
C29_SessionsIsolated ==
    [][/\ \A u \in Users, x \in sessions :
            x.user # u
              => /\ revoke_session_response(u, x.id) =
                      Response(404, "Session not found.")
                 /\ revoke_session(u, x.id) => x \in sessions'
       /\ \A u \in Users :
            /\ UserSessionsView_get(u) # {}
            /\ \A q \in UserSessionsView_get(u) :
                 /\ {q[i] : i \in DOMAIN q} =
                      {x \in sessions : x.user = u /\ x.is_active}
                 /\ Len(q) = Cardinality({q[i] : i \in DOMAIN q})
                 /\ \A i \in DOMAIN q :
                      i > 1 => q[i - 1].last_activity >= q[i].last_activity]_vars

(* Both users have an active session, one of them has two, opened at       *)
(* different times, and one user may call revoke_session with the id of    *)
(* the other's session.                                                    *)
C29_Witness ==
    \E x, y, z \in sessions :
        /\ x.user # y.user
        /\ x.is_active /\ y.is_active /\ z.is_active
        /\ z.user = x.user
        /\ z.last_activity # x.last_activity
        /\ Authenticated(y.user)

C30_AllowedWithinLimit ==
    \A i \in RateIdentifiers : allowed[i] <= DefaultRateLimit

(* C30: check_rate_limit keeps the stored counter within the limit and a   *)
(* denied call writes nothing; a call that saw the current counter, after  *)
(* calls that were all counted (as calls made one after the other are), is *)
(* allowed exactly when fewer than limit calls have been allowed, and      *)
(* leaves the counter equal to the number of allowed calls.  Calls that    *)
(* overlap may lose updates of the counter, and more than limit of them    *)
(* may be allowed.                                                         *)
C30_RateLimitSequential ==
    [][\A r \in inflight :
         r.view = "rate" /\ check_rate_limit_set(r)
         => LET i == r.row.identifier IN
            /\ current_count(i)' <= DefaultRateLimit
            /\ r.row.count >= DefaultRateLimit => UNCHANGED <<cache, allowed>>
            /\ r.row.count = current_count(i) /\ allowed[i] = current_count(i)
               => /\ allowed'[i] = allowed[i] + 1
                    <=> allowed[i] < DefaultRateLimit
                  /\ allowed'[i] # allowed[i] => allowed'[i] = allowed[i] + 1
                  /\ allowed'[i] = current_count(i)'
                  /\ allowed'[i] <= DefaultRateLimit]_vars

(* limit calls have been allowed, each counted, and the next call has read *)
(* the counter at the limit.                                               *)
C30_Witness ==
    \E r \in inflight :
        /\ r.view = "rate"
        /\ r.row.count = DefaultRateLimit
        /\ cache[r.row.identifier] = DefaultRateLimit
        /\ allowed[r.row.identifier] = DefaultRateLimit

============================================================================
